---- MODULE Spec2Model ----
(***************************************************************************)
(* Disaster mesh network: the envelope relay state machine of MeshNode     *)
(* (mesh_node.py) and SecureMeshNode (secure_mesh_node.py), with the       *)
(* payload pipeline of CryptoManager (crypto_utils.py) and of              *)
(* AuthenticationManager / TrustManager (auth_system.py).                  *)
(*                                                                         *)
(* Every node runs one thread per accepted TCP connection (_data_listener  *)
(* starts a thread on _handle_client).  The threads of a node share its    *)
(* message_cache and its trust ledger without a lock, so a handler is      *)
(* modelled as a sequence of steps, one per access to that shared state.   *)
(***************************************************************************)
EXTENDS Bags, FiniteSets, Integers, Sequences, TLC

VARIABLES
    known_nodes,    \* node -> sequence of neighbour ids (dict, insertion order)
    enable_auth,    \* node -> BOOLEAN (SecureMeshNode.enable_auth; FALSE is MeshNode)
    down,           \* nodes whose data port refuses connections
    message_cache,  \* node -> set of msg_id
    trust_scores,   \* node -> (id -> score), TrustManager.trust_scores
    trusted_nodes,  \* node -> (id -> public key), TrustManager.trusted_nodes
    score_order,    \* node -> the ids of trust_scores in insertion order (dict order)
    trust_file,     \* node -> the content last written by save_trusted_nodes
    net,            \* bag of frames [to, env] sent and not yet read by a handler
    handlers,       \* bag of running _handle_client threads [node, env, pc, tmp]
    sent,           \* history: bag of _send_to_node calls
    delivered,      \* history: bag of _trigger_callbacks calls
    drops,          \* history: set of [node, msg_id, reason]
    originated,     \* history: set of send_message calls
                    \*   [msg_id, source_id, dest_id, text, result]
    raised,         \* history: the calls that ended in an exception
                    \*   [node, op, error, k], k counting them
    next_id,        \* the next msg_id send_message draws
    ext_left,       \* frames other TCP clients may still send
    now,            \* time.time(), in seconds
    node_info,      \* node -> (id -> NodeInfo), the values of known_nodes
    running,        \* node -> BOOLEAN (MeshNode.running)
    sockets,        \* node -> [discovery, data], each "none", "open" or "closed"
    tasks,          \* node -> position of each of the four threads of start()
    wake,           \* node -> the time at which a sleeping thread wakes
    reported,       \* history: set of error lines printed [node, task, running]
    evicted,        \* history: set of removals the janitor printed [node, node_id, at]
    transfer_states,    \* FileTransferManager.transfer_states: file_id -> state
    save_directory,     \* the files of save_directory: path -> bytes
    completed,          \* history: the completion callback calls, in order
    processed,          \* history: the process_chunk calls, in order, each
                        \*   with what it returned or raised
    completion_callbacks,   \* FileTransferManager.completion_callbacks: what
                            \*   each callback does: "returns", "raises", or
                            \*   the method of the manager it calls
    transfer_lock,      \* FileTransferManager.transfer_lock: "free" or "held"
    stack,              \* the calls into the manager that a thread has made
                        \*   and not yet left, the innermost last
    message_callbacks,  \* node -> MeshNode.message_callbacks, likewise
    called,             \* history: bag of _trigger_callbacks calls with the
                        \*   callbacks they invoked [node, msg_id, calls,
                        \*   propagated, closed]
    routing_table,      \* MessageRouter.routing_table: destination -> RouteInfo
    link_latencies,     \* MessageRouter.link_latencies: <<node1, node2>> -> latency
    topology,           \* history: the arguments of the update_topology calls
    routes,             \* the last _compute_routes call on a graph of its
                        \*   own: [source, graph, table]
    returned            \* the last call of a function of CryptoManager or
                        \*   AuthenticationManager made on its own:
                        \*   [op, arg, result]

\* The state of discovery and of the node's threads, and the state of the
\* file transfer manager.
discovery_vars == <<now, node_info, running, sockets, tasks, wake, reported,
                    evicted>>
file_vars == <<transfer_states, save_directory, completed, processed,
               completion_callbacks, transfer_lock, stack>>

\* The state of the router, and the calls of functions made on their own.
library_vars == <<routing_table, link_latencies, topology, routes, returned>>

\* The state of the relay apart from the keys of the neighbour table.
relay_vars == <<enable_auth, down, message_cache, trust_scores, trusted_nodes,
                score_order, trust_file, net, handlers, sent, delivered, drops,
                originated, raised, next_id, ext_left, message_callbacks,
                called>>

vars == <<known_nodes, enable_auth, down, message_cache, trust_scores,
          trusted_nodes, score_order, trust_file, net, handlers, sent,
          delivered, drops, originated, raised, next_id, ext_left,
          message_callbacks, called, discovery_vars, file_vars, library_vars>>

Nodes == DOMAIN known_nodes

(***************************************************************************)
(* Bounds of the model.                                                    *)
(***************************************************************************)
MaxSend == 1        \* send_message calls in a behaviour
MaxExt == 1         \* frames written to a data port by another TCP client
MaxRaise == 1       \* calls that end in an exception in a behaviour
NumCallbacks == 2   \* callbacks registered with a node or a transfer manager

(***************************************************************************)
(* Program constants.                                                      *)
(***************************************************************************)
MAX_TTL == 20
BROADCAST == "broadcast"

(***************************************************************************)
(* Payload strings.  A string is modelled by what the functions below can  *)
(* tell about it: a text, the base64 ciphertext of a string, or the JSON   *)
(* of a signed message.                                                    *)
(***************************************************************************)
Text(s) == [txt |-> s]
None == [none |-> TRUE]

\* CryptoManager.encrypt: AES-CBC under the key derived from the default
\* shared_key, which every node uses (MeshNode.__init__ calls CryptoManager()).
encrypt(plaintext) == [enc |-> plaintext]

\* CryptoManager.decrypt raises ValueError unless the string is a ciphertext.
decrypt_raises(ciphertext_b64) == "enc" \notin DOMAIN ciphertext_b64
decrypt(ciphertext_b64) == ciphertext_b64.enc

\* AuthenticationManager.generate_keypair: one key pair per node id.
KeyOf(node_id) == node_id

\* AuthenticationManager.sign_message: the JSON of the signed message.  The
\* signature is the pair (signing key, signed digest).
sign_message(message, node_id, key) ==
    [message |-> message,
     signature |-> [key |-> key, over |-> message],
     public_key |-> key,
     signer_id |-> node_id]

\* verify_signature without the DSS check of the signature.
verify_signature_unchecked(signed_message_json) ==
    IF {"message", "signature", "public_key", "signer_id"}
           \subseteq DOMAIN signed_message_json
    THEN [ok |-> TRUE, message |-> signed_message_json.message,
          signer_id |-> signed_message_json.signer_id]
    ELSE [ok |-> FALSE, message |-> None, signer_id |-> "None"]

\* AuthenticationManager.verify_signature: (ok, message, signer_id).  The
\* public key is the one carried inside the JSON.
verify_signature(signed_message_json) ==
    IF /\ {"message", "signature", "public_key", "signer_id"}
              \subseteq DOMAIN signed_message_json
       /\ signed_message_json.signature.key = signed_message_json.public_key
       /\ signed_message_json.signature.over = signed_message_json.message
    THEN [ok |-> TRUE, message |-> signed_message_json.message,
          signer_id |-> signed_message_json.signer_id]
    ELSE [ok |-> FALSE, message |-> None, signer_id |-> "None"]

(***************************************************************************)
(* TrustManager.                                                           *)
(***************************************************************************)
EmptyMap == <<>>

\* max(0, s): the upper limit is left out.
ClampLowOnly(s) == IF s < 0 THEN 0 ELSE s

\* max(0, min(100, s))
Clamp(s) == IF s < 0 THEN 0 ELSE IF s > 100 THEN 100 ELSE s

\* update_trust_score, first statement: an unscored id starts at 50.
ScoreDefault(scores, node_id) ==
    IF node_id \in DOMAIN scores THEN scores ELSE scores @@ (node_id :> 50)

\* update_trust_score, the store of the clamped sum.
ScoreStore(scores, node_id, read, delta) ==
    [scores EXCEPT ![node_id] = Clamp(read + delta)]

\* An is_trusted that looks at the key and not at the score.
is_trusted_any_score(n, node_id, min_score) ==
    node_id \in DOMAIN trusted_nodes[n]

\* TrustManager.is_trusted
is_trusted(n, node_id, min_score) ==
    /\ node_id \in DOMAIN trusted_nodes[n]
    /\ (IF node_id \in DOMAIN trust_scores[n]
        THEN trust_scores[n][node_id] ELSE 0) >= min_score

\* A save that writes the scores and leaves the keys out.
save_trusted_nodes_scores_only(keys, scores, order) ==
    [exists |-> TRUE, trusted_nodes |-> <<>>, trust_scores |-> scores,
     order |-> order]

\* TrustManager.save_trusted_nodes: the file is rewritten in full; the JSON
\* object of the scores keeps the order of the dict.
save_trusted_nodes(keys, scores, order) ==
    [exists |-> TRUE, trusted_nodes |-> keys, trust_scores |-> scores,
     order |-> order]

\* `d[k] = v` that leaves the value of a key already present.
MapPutKept(f, k, v) == IF k \in DOMAIN f THEN f ELSE f @@ (k :> v)

\* `d[k] = v` on a dict
MapPut(f, k, v) == IF k \in DOMAIN f THEN [f EXCEPT ![k] = v] ELSE f @@ (k :> v)

\* `del d[k]` on a dict that has the key
MapDel(f, k) == [x \in DOMAIN f \ {k} |-> f[x]]

\* The place of a key in the dict order: an assignment to a new key appends it.
OrderPut(order, k) ==
    IF \E i \in 1..Len(order) : order[i] = k THEN order ELSE Append(order, k)

(***************************************************************************)
(* Envelopes (Message) and transmission.                                   *)
(***************************************************************************)
Message(msg_id, source_id, dest_id, payload, ttl, route) ==
    [msg_id |-> msg_id, source_id |-> source_id, dest_id |-> dest_id,
     payload |-> payload, ttl |-> ttl, route |-> route]

InRoute(route, node_id) == \E i \in 1..Len(route) : route[i] = node_id

\* MeshNode._send_to_node: TRUE iff the connection and the write succeed.
_send_to_node(node) == node \notin down

\* A forward that tries every neighbour outside the route.
ForwardTargetsEvery(n, message) ==
    SelectSeq(known_nodes[n], LAMBDA m : ~InRoute(message.route, m))

\* _forward_message: the nodes it calls _send_to_node on (none or one).
ForwardTargets(n, message) ==
    LET available_nodes ==
            SelectSeq(known_nodes[n], LAMBDA m : ~InRoute(message.route, m))
    IN  IF available_nodes = <<>> THEN <<>> ELSE <<available_nodes[1]>>

\* _forward_message: its return value.
ForwardResult(targets) ==
    IF targets = <<>> THEN FALSE ELSE _send_to_node(targets[1])

\* A broadcast loop that stops at the first failed transmission.
BroadcastTargetsUntilFailure(n) ==
    LET nodes == known_nodes[n]
        failed == {i \in 1..Len(nodes) : ~_send_to_node(nodes[i])}
    IN  IF failed = {} THEN nodes
        ELSE SubSeq(nodes, 1, CHOOSE i \in failed : \A j \in failed : i <= j)

\* _broadcast_message: the nodes it calls _send_to_node on.
BroadcastTargets(n) == known_nodes[n]

Range(s) == {s[i] : i \in 1..Len(s)}

\* _broadcast_message: success_count after the loop, and its return value.
SuccessCount(targets) == Cardinality({i \in 1..Len(targets) : _send_to_node(targets[i])})
BroadcastResult(targets) == SuccessCount(targets) > 0

\* The frames a list of _send_to_node calls puts on the wire.
Frames(targets, message) ==
    SetToBag({[to |-> t, env |-> message] : t \in {u \in Range(targets) : _send_to_node(u)}})

\* History of the _send_to_node calls: who sent what to whom, out of which
\* received envelope (its own for the originator).
SentLog(n, kind, targets, message, rcvd) ==
    SetToBag({[from |-> n, to |-> t, kind |-> kind, env |-> message,
               rcvd |-> rcvd, ok |-> _send_to_node(t)] : t \in Range(targets)})

(***************************************************************************)
(* MeshNode.send_message / SecureMeshNode.send_message                     *)
(***************************************************************************)
Cleartexts == {Text("hello"), encrypt(Text("hello"))}

SendPayload(n, payload) ==
    IF enable_auth[n]
    THEN encrypt(sign_message(payload, n, KeyOf(n)))
    ELSE encrypt(payload)

\* A send_message that leaves its msg_id out of the duplicate cache.
SendCacheAddSkipped(cache, msg_id) == cache

\* `self.message_cache.add(message.msg_id)` of send_message
SendCacheAdd(cache, msg_id) == cache \cup {msg_id}

send_message(n, dest_id, payload) ==
    /\ next_id <= MaxSend
    /\ LET message == Message(next_id, n, dest_id, SendPayload(n, payload),
                              MAX_TTL, <<n>>)
           targets == IF dest_id = BROADCAST
                      THEN BroadcastTargets(n)
                      ELSE ForwardTargets(n, message)
           result == IF dest_id = BROADCAST
                     THEN BroadcastResult(targets)
                     ELSE ForwardResult(targets)
       IN  /\ message_cache' = [message_cache EXCEPT ![n] =
                                    SendCacheAdd(@, message.msg_id)]
           /\ net' = net (+) Frames(targets, message)
           /\ sent' = sent (+) SentLog(n, "send", targets, message, message)
           /\ originated' = originated \cup
                  {[msg_id |-> next_id, source_id |-> n, dest_id |-> dest_id,
                    text |-> payload, result |-> result]}
    /\ next_id' = next_id + 1
    /\ UNCHANGED <<known_nodes, enable_auth, down, trust_scores, trusted_nodes,
                   score_order, trust_file, handlers, delivered, drops, raised,
                   ext_left>>
    /\ UNCHANGED <<library_vars, discovery_vars, file_vars, message_callbacks, called>>

(***************************************************************************)
(* Frames from other TCP clients.  _data_listener accepts every            *)
(* connection, so a handler may be given any well-formed envelope: a copy  *)
(* of one seen on the wire, or one built by a client that knows the shared *)
(* key.                                                                    *)
(***************************************************************************)
ForeignIds == {901}
ForeignKey == "kX"

Tampered(blob) == [blob EXCEPT !.signature.over = Text("tampered")]

ForeignEnvelopes(n) ==
    LET src == "A"
        ok == encrypt(sign_message(Text("x"), src, ForeignKey))
        bad == encrypt(Tampered(sign_message(Text("x"), src, ForeignKey)))
        mis == encrypt(sign_message(Text("x"), "M", ForeignKey))
        raw == encrypt(Text("x"))
    IN  {Message(i, src, n, p, 1, <<src>>) :
             i \in ForeignIds, p \in {ok, bad, mis, raw}}
        \cup
        {Message(i, src, d, p, t, <<src>>) :
             i \in ForeignIds, d \in Nodes \ {n}, p \in {ok, raw}, t \in {0, 1}}

SeenOnWire == {s.env : s \in BagToSet(sent)}

ExternalFrame(n, message) ==
    /\ ext_left > 0
    /\ n \notin down
    /\ net' = net (+) SetToBag({[to |-> n, env |-> message]})
    /\ ext_left' = ext_left - 1
    /\ UNCHANGED <<known_nodes, enable_auth, down, message_cache, trust_scores,
                   trusted_nodes, score_order, trust_file, handlers, sent,
                   delivered, drops, originated, raised, next_id>>
    /\ UNCHANGED <<library_vars, discovery_vars, file_vars, message_callbacks, called>>

\* What a client may write that is no envelope the handler accepts: bytes
\* that are no JSON, a dict without route, a dict with an unknown key, and
\* an envelope whose payload is no ciphertext.
MalformedFrames(n) ==
    {[bytes |-> "noise"],
     [msg_id |-> 902, source_id |-> "A", dest_id |-> n,
      payload |-> encrypt(Text("x")), ttl |-> 1],
     [msg_id |-> 902, source_id |-> "A", dest_id |-> n,
      payload |-> encrypt(Text("x")), ttl |-> 1, route |-> <<"A">>, hops |-> 1],
     Message(902, "A", n, Text("x"), 1, <<"A">>)}

\* A client connects, writes less than the frame its length prefix
\* announces, and keeps the connection open: the handler thread waits in
\* `client_socket.recv`, on a socket without a timeout.
ExternalStall(n) ==
    /\ ext_left > 0
    /\ n \notin down
    /\ handlers' = handlers (+)
           SetToBag({[node |-> n, env |-> [bytes |-> "partial"], pc |-> "recv",
                      tmp |-> 0]})
    /\ ext_left' = ext_left - 1
    /\ UNCHANGED <<known_nodes, enable_auth, down, message_cache, trust_scores,
                   trusted_nodes, score_order, trust_file, net, sent, delivered,
                   drops, originated, raised, next_id>>
    /\ UNCHANGED <<library_vars, discovery_vars, file_vars, message_callbacks, called>>

(***************************************************************************)
(* _handle_client, one action per access to the node's shared state.       *)
(***************************************************************************)
Handler(n, message, pc, tmp) == [node |-> n, env |-> message, pc |-> pc, tmp |-> tmp]

Drop(n, message, reason) ==
    drops' = drops \cup {[node |-> n, msg_id |-> message.msg_id, reason |-> reason]}

\* The duplicate test: `if message.msg_id in self.message_cache: return`.
IsDuplicate(cache, msg_id) == msg_id \in cache

\* A handler that forgets the insertion.
CacheAddSkipped(cache, msg_id) == cache

\* `self.message_cache.add(message.msg_id)`
CacheAdd(cache, msg_id) == cache \cup {msg_id}

\* The fields of the Message dataclass the model keeps.
MessageFields == {"msg_id", "source_id", "dest_id", "payload", "ttl", "route"}

\* A parser that ignores the keys it does not know.
ParseRaisesOnMissing(data) ==
    "bytes" \in DOMAIN data \/ ~(MessageFields \subseteq DOMAIN data)

\* `json.loads(data.decode('utf-8'))` raises on bytes that are no JSON, and
\* `Message(**msg_dict)` on a dict with a missing or an unknown key.
ParseRaises(data) ==
    "bytes" \in DOMAIN data \/ DOMAIN data # MessageFields

\* The outer `except Exception` of _handle_client, for a frame without a
\* readable msg_id (0 in the record).
DropUnparsed(n) ==
    drops' = drops \cup {[node |-> n, msg_id |-> 0, reason |-> "parse"]}

\* Read the frame, parse it, test the duplicate cache.
HandleCheck(f) ==
    /\ BagIn(f, net)
    /\ net' = net (-) SetToBag({f})
    /\ IF ParseRaises(f.env)
       THEN /\ DropUnparsed(f.to)
            /\ UNCHANGED handlers
       ELSE IF IsDuplicate(message_cache[f.to], f.env.msg_id)
       THEN /\ Drop(f.to, f.env, "duplicate")
            /\ UNCHANGED handlers
       ELSE /\ handlers' = handlers (+) SetToBag({Handler(f.to, f.env, "add", 0)})
            /\ UNCHANGED drops
    /\ UNCHANGED <<known_nodes, enable_auth, down, message_cache, trust_scores,
                   trusted_nodes, score_order, trust_file, sent, delivered,
                   originated, raised, next_id, ext_left>>
    /\ UNCHANGED <<library_vars, discovery_vars, file_vars, message_callbacks, called>>

\* The peer of a waiting handler closes the connection: recv returns b'',
\* the bytes read so far do not parse, and the handler ends.
PeerCloses(h) ==
    /\ BagIn(h, handlers)
    /\ h.pc = "recv"
    /\ handlers' = handlers (-) SetToBag({h})
    /\ DropUnparsed(h.node)
    /\ UNCHANGED <<known_nodes, enable_auth, down, message_cache, trust_scores,
                   trusted_nodes, score_order, trust_file, net, sent, delivered,
                   originated, raised, next_id, ext_left>>
    /\ UNCHANGED <<library_vars, discovery_vars, file_vars, message_callbacks, called>>

\* The result of the authentication check on the decrypted payload.
Verified(h) == verify_signature(decrypt(h.env.payload))

\* The score change the authentication check asks for.
TrustDelta(h) ==
    IF ~Verified(h).ok THEN -20
    ELSE IF Verified(h).signer_id # h.env.source_id THEN -30
    ELSE 1

\* Insert into the duplicate cache, then decrypt.
HandleAdd(h) ==
    /\ BagIn(h, handlers)
    /\ h.pc = "add"
    /\ message_cache' = [message_cache EXCEPT ![h.node] = CacheAdd(@, h.env.msg_id)]
    /\ IF decrypt_raises(h.env.payload)
       THEN /\ handlers' = handlers (-) SetToBag({h})
            /\ Drop(h.node, h.env, "decrypt")
       ELSE /\ handlers' = (handlers (-) SetToBag({h})) (+)
                    SetToBag({[h EXCEPT !.pc = IF enable_auth[h.node]
                                                THEN "trust_read" ELSE "dispatch"]})
            /\ UNCHANGED drops
    /\ UNCHANGED <<known_nodes, enable_auth, down, trust_scores, trusted_nodes,
                   score_order, trust_file, net, sent, delivered, originated,
                   raised, next_id, ext_left>>
    /\ UNCHANGED <<library_vars, discovery_vars, file_vars, message_callbacks, called>>

\* update_trust_score: default the score and read it.
TrustRead(h) ==
    /\ BagIn(h, handlers)
    /\ h.pc = "trust_read"
    /\ LET scores == ScoreDefault(trust_scores[h.node], h.env.source_id)
       IN  /\ trust_scores' = [trust_scores EXCEPT ![h.node] = scores]
           /\ score_order' = [score_order EXCEPT ![h.node] =
                                  OrderPut(@, h.env.source_id)]
           /\ handlers' = (handlers (-) SetToBag({h})) (+)
                  SetToBag({[h EXCEPT !.pc = "trust_write",
                                      !.tmp = scores[h.env.source_id]]})
    /\ UNCHANGED <<known_nodes, enable_auth, down, message_cache, trusted_nodes,
                   trust_file, net, sent, delivered, drops, originated, raised,
                   next_id, ext_left>>
    /\ UNCHANGED <<library_vars, discovery_vars, file_vars, message_callbacks, called>>

\* update_trust_score: store the clamped sum and save the ledger; a failed
\* check ends the handler here.
TrustWrite(h) ==
    /\ BagIn(h, handlers)
    /\ h.pc = "trust_write"
    /\ LET scores == ScoreStore(ScoreDefault(trust_scores[h.node], h.env.source_id),
                                h.env.source_id, h.tmp, TrustDelta(h))
           order == OrderPut(score_order[h.node], h.env.source_id)
       IN  /\ trust_scores' = [trust_scores EXCEPT ![h.node] = scores]
           /\ score_order' = [score_order EXCEPT ![h.node] = order]
           /\ trust_file' = [trust_file EXCEPT ![h.node] =
                  save_trusted_nodes(trusted_nodes[h.node], scores, order)]
    /\ IF TrustDelta(h) < 0
       THEN /\ handlers' = handlers (-) SetToBag({h})
            /\ Drop(h.node, h.env, IF Verified(h).ok THEN "signer" ELSE "signature")
       ELSE /\ handlers' = (handlers (-) SetToBag({h})) (+)
                    SetToBag({[h EXCEPT !.pc = "admit", !.tmp = 0]})
            /\ UNCHANGED drops
    /\ UNCHANGED <<known_nodes, enable_auth, down, message_cache, trusted_nodes,
                   net, sent, delivered, originated, raised, next_id, ext_left>>
    /\ UNCHANGED <<library_vars, discovery_vars, file_vars, message_callbacks, called>>

\* `if not is_trusted(source_id, min_score=0)`: add_trusted_node with the
\* public key of the signed message and score 50, and save the ledger.
Admit(h) ==
    /\ BagIn(h, handlers)
    /\ h.pc = "admit"
    /\ IF ~is_trusted(h.node, h.env.source_id, 0)
       THEN LET keys == MapPut(trusted_nodes[h.node], h.env.source_id,
                               decrypt(h.env.payload).public_key)
                scores == MapPut(trust_scores[h.node], h.env.source_id, 50)
                order == OrderPut(score_order[h.node], h.env.source_id)
            IN  /\ trusted_nodes' = [trusted_nodes EXCEPT ![h.node] = keys]
                /\ trust_scores' = [trust_scores EXCEPT ![h.node] = scores]
                /\ score_order' = [score_order EXCEPT ![h.node] = order]
                /\ trust_file' = [trust_file EXCEPT ![h.node] =
                                     save_trusted_nodes(keys, scores, order)]
       ELSE UNCHANGED <<trusted_nodes, trust_scores, score_order, trust_file>>
    /\ handlers' = (handlers (-) SetToBag({h})) (+)
           SetToBag({[h EXCEPT !.pc = "dispatch"]})
    /\ UNCHANGED <<known_nodes, enable_auth, down, message_cache, net, sent,
                   delivered, drops, originated, raised, next_id, ext_left>>
    /\ UNCHANGED <<library_vars, discovery_vars, file_vars, message_callbacks, called>>

\* A handler that hands on the signed message instead of its text.
HandlerPayloadSigned(h) == decrypt(h.env.payload)

\* `message.payload = ...`: the payload the handler writes into the message.
HandlerPayload(h) ==
    IF enable_auth[h.node] THEN Verified(h).message ELSE decrypt(h.env.payload)

\* An insertion at the front of the route instead of an append.
RouteAppendFront(route, node_id) == <<node_id>> \o route

\* `message.route.append(self.node_id)`
RouteAppend(route, node_id) == Append(route, node_id)

\* A relay that forgets the decrement.
TtlDecrementSkipped(ttl) == ttl

\* `message.ttl -= 1`
TtlDecrement(ttl) == ttl - 1

\* The message after the payload assignment and the route append.
Processed(h) ==
    [h.env EXCEPT !.payload = HandlerPayload(h),
                  !.route = RouteAppend(h.env.route, h.node)]

\* A loop over the callbacks without the try: the first exception ends it
\* and leaves the method.
TriggerCallbacksUnguarded(callbacks) ==
    LET raisers == {k \in 1..Len(callbacks) : callbacks[k] = "raises"}
        last == IF raisers = {} THEN Len(callbacks)
                ELSE CHOOSE k \in raisers : \A j \in raisers : k <= j
    IN  [calls |-> [k \in 1..last |-> [callback |-> k, trapped |-> FALSE]],
         propagates |-> raisers # {}]

\* MeshNode._trigger_callbacks: every callback of the list is called in
\* its order, and the exception of one is caught and printed.
_trigger_callbacks(callbacks) ==
    [calls |-> [k \in 1..Len(callbacks) |->
                   [callback |-> k, trapped |-> callbacks[k] = "raises"]],
     propagates |-> FALSE]

\* What a handler thread does with a message for its node: the callbacks,
\* `except Exception` for what leaves them, and `client_socket.close()` in
\* the finally clause.
TriggerRecord(n, msg_id) ==
    LET loop == _trigger_callbacks(message_callbacks[n])
    IN  [node |-> n, msg_id |-> msg_id, calls |-> loop.calls,
         propagated |-> loop.propagates, closed |-> TRUE]

\* MeshNode.register_message_callback
register_message_callback(n, callback) ==
    /\ Len(message_callbacks[n]) < NumCallbacks
    /\ message_callbacks' = [message_callbacks EXCEPT ![n] = Append(@, callback)]
    /\ UNCHANGED <<known_nodes, enable_auth, down, message_cache, trust_scores,
                   trusted_nodes, score_order, trust_file, net, handlers, sent,
                   delivered, drops, originated, raised, next_id, ext_left,
                   called, discovery_vars, file_vars, library_vars>>

\* The destination check: deliver, relay or drop.
Dispatch(h) ==
    /\ BagIn(h, handlers)
    /\ h.pc = "dispatch"
    /\ handlers' = handlers (-) SetToBag({h})
    /\ LET message == Processed(h)
           relayed == [message EXCEPT !.ttl = TtlDecrement(message.ttl)]
           targets == ForwardTargets(h.node, relayed)
       IN  IF message.dest_id = h.node \/ message.dest_id = BROADCAST
           THEN /\ delivered' = delivered (+)
                       SetToBag({[node |-> h.node, env |-> message, rcvd |-> h.env]})
                /\ called' = called (+)
                       SetToBag({TriggerRecord(h.node, message.msg_id)})
                /\ UNCHANGED <<net, sent, drops>>
           ELSE IF message.ttl > 0
           THEN IF enable_auth[h.node] /\ ~is_trusted(h.node, message.source_id, 20)
                THEN /\ Drop(h.node, message, "untrusted")
                     /\ UNCHANGED <<net, sent, delivered, called>>
                ELSE /\ net' = net (+) Frames(targets, relayed)
                     /\ sent' = sent (+) SentLog(h.node, "relay", targets, relayed, h.env)
                     /\ IF targets = <<>>
                        THEN Drop(h.node, message, "no_target")
                        ELSE UNCHANGED drops
                     /\ UNCHANGED <<delivered, called>>
           ELSE /\ Drop(h.node, message, "ttl")
                /\ UNCHANGED <<net, sent, delivered, called>>
    /\ UNCHANGED <<known_nodes, enable_auth, down, message_cache, trust_scores,
                   trusted_nodes, score_order, trust_file, originated, raised,
                   next_id, ext_left>>
    /\ UNCHANGED <<library_vars, discovery_vars, file_vars, message_callbacks>>

(***************************************************************************)
(* TrustManager calls made outside a connection handler.                   *)
(***************************************************************************)
Raise(n, op, error) ==
    /\ Cardinality(raised) < MaxRaise
    /\ raised' = raised \cup {[node |-> n, op |-> op, error |-> error,
                               k |-> Cardinality(raised) + 1]}

\* The loop of remove_untrusted_nodes over to_remove: `del trusted_nodes[id]`
\* raises KeyError for an id without a key, which ends the call.
RECURSIVE DeleteLoop(_, _, _)
DeleteLoop(keys, scores, to_remove) ==
    IF to_remove = <<>>
    THEN [trusted_nodes |-> keys, trust_scores |-> scores, raises |-> FALSE]
    ELSE IF Head(to_remove) \notin DOMAIN keys
    THEN [trusted_nodes |-> keys, trust_scores |-> scores, raises |-> TRUE]
    ELSE DeleteLoop(MapDel(keys, Head(to_remove)), MapDel(scores, Head(to_remove)),
                    Tail(to_remove))

\* TrustManager.remove_untrusted_nodes
remove_untrusted_nodes(n, threshold) ==
    LET to_remove == SelectSeq(score_order[n],
                               LAMBDA id : trust_scores[n][id] < threshold)
        r == DeleteLoop(trusted_nodes[n], trust_scores[n], to_remove)
        order == SelectSeq(score_order[n], LAMBDA id : id \in DOMAIN r.trust_scores)
    IN  /\ trusted_nodes' = [trusted_nodes EXCEPT ![n] = r.trusted_nodes]
        /\ trust_scores' = [trust_scores EXCEPT ![n] = r.trust_scores]
        /\ score_order' = [score_order EXCEPT ![n] = order]
        /\ IF r.raises
           THEN /\ Raise(n, "remove_untrusted_nodes", "KeyError")
                /\ UNCHANGED trust_file
           ELSE /\ trust_file' =
                       IF to_remove # <<>>
                       THEN [trust_file EXCEPT ![n] =
                                save_trusted_nodes(r.trusted_nodes, r.trust_scores, order)]
                       ELSE trust_file
                /\ UNCHANGED raised
        /\ UNCHANGED <<known_nodes, enable_auth, down, message_cache, net,
                       handlers, sent, delivered, drops, originated, next_id,
                       ext_left>>
        /\ UNCHANGED <<library_vars, discovery_vars, file_vars, message_callbacks, called>>

\* SecureMeshNode.cleanup_untrusted_nodes
cleanup_untrusted_nodes(n) ==
    /\ enable_auth[n]
    /\ remove_untrusted_nodes(n, 10)

\* TrustManager.update_trust_score, called by one thread at a time.
update_trust_score(n, node_id, delta) ==
    LET defaulted == ScoreDefault(trust_scores[n], node_id)
        scores == ScoreStore(defaulted, node_id, defaulted[node_id], delta)
        order == OrderPut(score_order[n], node_id)
    IN  /\ trust_scores' = [trust_scores EXCEPT ![n] = scores]
        /\ score_order' = [score_order EXCEPT ![n] = order]
        /\ trust_file' = [trust_file EXCEPT ![n] =
                             save_trusted_nodes(trusted_nodes[n], scores, order)]
        /\ UNCHANGED <<known_nodes, enable_auth, down, message_cache,
                       trusted_nodes, net, handlers, sent, delivered, drops,
                       originated, raised, next_id, ext_left>>
        /\ UNCHANGED <<library_vars, discovery_vars, file_vars, message_callbacks, called>>

\* TrustManager.add_trusted_node
add_trusted_node(n, node_id, public_key_b64, initial_score) ==
    LET keys == MapPut(trusted_nodes[n], node_id, public_key_b64)
        scores == MapPut(trust_scores[n], node_id, initial_score)
        order == OrderPut(score_order[n], node_id)
    IN  /\ trusted_nodes' = [trusted_nodes EXCEPT ![n] = keys]
        /\ trust_scores' = [trust_scores EXCEPT ![n] = scores]
        /\ score_order' = [score_order EXCEPT ![n] = order]
        /\ trust_file' = [trust_file EXCEPT ![n] =
                             save_trusted_nodes(keys, scores, order)]
        /\ UNCHANGED <<known_nodes, enable_auth, down, message_cache, net,
                       handlers, sent, delivered, drops, originated, raised,
                       next_id, ext_left>>
        /\ UNCHANGED <<library_vars, discovery_vars, file_vars, message_callbacks, called>>

(***************************************************************************)
(* Discovery, the neighbour table and the threads of MeshNode.start.       *)
(***************************************************************************)
DATA_PORT == 5001
BROADCAST_INTERVAL == 30
NODE_TIMEOUT == 90
CLEANUP_SLEEP == 30     \* `time.sleep(30)` of _cleanup_old_nodes

Tick == 10              \* seconds between two readings of the clock
BeaconsUntil == 10      \* no datagram arrives after this time
StartUntil == 0         \* start() is not called after this time

\* The clock stops once the sleep that follows the last pass an entry can
\* survive has ended.
MaxTime == BeaconsUntil + NODE_TIMEOUT + CLEANUP_SLEEP

NodeInfo(node_id, ip_address, port, last_seen, hostname) ==
    [node_id |-> node_id, ip_address |-> ip_address, port |-> port,
     last_seen |-> last_seen, hostname |-> hostname]

AddrOf(id) == <<"ip", id>>
HostOf(id) == <<"host", id>>

\* The dict of `discovery_msg` in _discovery_broadcaster.
DiscoveryMsg(node_id, timestamp) ==
    [type |-> "discovery", node_id |-> node_id, hostname |-> HostOf(node_id),
     port |-> DATA_PORT, timestamp |-> timestamp]

\* A datagram: its bytes and the address it came from.  The bytes are the
\* JSON of a dict, or something json.loads rejects.
Json(msg) == [json |-> msg]
Datagram(data, from) == [data |-> data, addr |-> <<AddrOf(from), 5000>>]

Peers == {"A", "B"}

\* What may arrive on the discovery port of n: beacons of peers, the
\* node's own broadcast, a beacon under its id from another address, a dict
\* of another type, a beacon without a port, a dict without a node_id, and
\* bytes that are no JSON.
Datagrams(n) ==
    {Datagram(Json(DiscoveryMsg(p, now)), p) : p \in Peers}
    \cup {Datagram(Json(DiscoveryMsg(n, now)), from) : from \in {n, "A"}}
    \cup {Datagram(Json([DiscoveryMsg("A", now) EXCEPT !.type = "chat"]), "A"),
          Datagram(Json([type |-> "discovery", node_id |-> "A",
                         hostname |-> HostOf("A"), timestamp |-> now]), "A"),
          Datagram(Json([type |-> "discovery", hostname |-> HostOf("A"),
                         port |-> DATA_PORT, timestamp |-> now]), "A"),
          Datagram([bytes |-> "noise"], "A")}

\* json.loads raises on bytes that are no JSON.
JsonLoadsRaises(data) == "json" \notin DOMAIN data
JsonLoads(data) == data.json

\* `msg.get('type')`
GetType(msg) == IF "type" \in DOMAIN msg THEN msg.type ELSE "None"

\* A listener that also takes the beacons carrying its own id.
AcceptsOwn(n, msg) == GetType(msg) = "discovery"

\* `if msg.get('type') == 'discovery' and msg['node_id'] != self.node_id`
Accepts(n, msg) == GetType(msg) = "discovery" /\ msg.node_id # n

\* The lookups that raise KeyError: msg['node_id'], msg['port'], msg['hostname'].
LookupRaises(n, msg) ==
    /\ GetType(msg) = "discovery"
    /\ \/ "node_id" \notin DOMAIN msg
       \/ Accepts(n, msg) /\ ~({"port", "hostname"} \subseteq DOMAIN msg)

Report(n, task) ==
    reported' = reported \cup {[node |-> n, task |-> task, running |-> running[n]]}

\* MeshNode.start, up to the first `while self.running:` of its threads.
start(n) ==
    /\ now <= StartUntil
    /\ ~running[n]
    /\ sockets[n].discovery = "none"
    /\ running' = [running EXCEPT ![n] = TRUE]
    /\ sockets' = [sockets EXCEPT ![n] = [discovery |-> "open", data |-> "open"]]
    /\ tasks' = [tasks EXCEPT ![n] = [listener |-> "recv", broadcaster |-> "send",
                                      acceptor |-> "accept", janitor |-> "sleep"]]
    /\ wake' = [wake EXCEPT ![n].janitor = now + CLEANUP_SLEEP]
    /\ UNCHANGED <<known_nodes, relay_vars, library_vars, now, node_info, reported, evicted, file_vars>>

\* `if self.discovery_socket: self.discovery_socket.close()`
Close(socket) == IF socket = "open" THEN "closed" ELSE socket

\* MeshNode.stop
stop(n) ==
    /\ running[n]
    /\ running' = [running EXCEPT ![n] = FALSE]
    /\ sockets' = [sockets EXCEPT ![n] = [discovery |-> Close(@.discovery),
                                          data |-> Close(@.data)]]
    /\ UNCHANGED <<known_nodes, relay_vars, library_vars, now, node_info, tasks, wake, reported,
                   evicted, file_vars>>

TimePasses ==
    /\ now < MaxTime
    /\ now' = now + Tick
    /\ UNCHANGED <<known_nodes, relay_vars, library_vars, node_info, running, sockets, tasks,
                   wake, reported, evicted, file_vars>>

\* `while self.running:` at the end of a pass through a thread's loop.
LoopCheck(n, body) == IF running[n] THEN body ELSE "done"

\* _discovery_broadcaster: sendto, which raises on a closed socket, and the
\* start of the sleep.
BroadcasterSend(n) ==
    /\ tasks[n].broadcaster = "send"
    /\ IF sockets[n].discovery = "open"
       THEN UNCHANGED reported
       ELSE Report(n, "broadcaster")
    /\ tasks' = [tasks EXCEPT ![n].broadcaster = "sleep"]
    /\ wake' = [wake EXCEPT ![n].broadcaster = now + BROADCAST_INTERVAL]
    /\ UNCHANGED <<known_nodes, relay_vars, library_vars, now, node_info, running, sockets,
                   evicted, file_vars>>

\* The end of `time.sleep(self.BROADCAST_INTERVAL)` and the loop test.
BroadcasterWake(n) ==
    /\ tasks[n].broadcaster = "sleep"
    /\ now >= wake[n].broadcaster
    /\ tasks' = [tasks EXCEPT ![n].broadcaster = LoopCheck(n, "send")]
    /\ wake' = [wake EXCEPT ![n].broadcaster = 0]
    /\ UNCHANGED <<known_nodes, relay_vars, library_vars, now, node_info, running, sockets,
                   reported, evicted, file_vars>>

\* _discovery_listener: one datagram.
_discovery_listener(n, d) ==
    /\ tasks[n].listener = "recv"
    /\ sockets[n].discovery = "open"
    /\ now <= BeaconsUntil
    /\ IF JsonLoadsRaises(d.data) \/ LookupRaises(n, JsonLoads(d.data))
       THEN /\ IF running[n] THEN Report(n, "listener") ELSE UNCHANGED reported
            /\ UNCHANGED <<known_nodes, node_info>>
       ELSE LET msg == JsonLoads(d.data)
            IN  /\ IF Accepts(n, msg)
                   THEN /\ known_nodes' = [known_nodes EXCEPT ![n] =
                                               OrderPut(@, msg.node_id)]
                        /\ node_info' = [node_info EXCEPT ![n] =
                               MapPut(@, msg.node_id,
                                      NodeInfo(msg.node_id, d.addr[1], msg.port,
                                               now, msg.hostname))]
                   ELSE UNCHANGED <<known_nodes, node_info>>
                /\ UNCHANGED reported
    /\ tasks' = [tasks EXCEPT ![n].listener = LoopCheck(n, "recv")]
    /\ UNCHANGED <<relay_vars, library_vars, now, running, sockets, wake, evicted, file_vars>>

\* recvfrom or accept on the socket stop() closed raises; the error is
\* printed `if self.running`.  Whether a call that was already blocked
\* returns at all depends on the platform.
SocketClosed(n, task) ==
    /\ \/ task = "listener" /\ tasks[n].listener = "recv"
          /\ sockets[n].discovery = "closed"
       \/ task = "acceptor" /\ tasks[n].acceptor = "accept"
          /\ sockets[n].data = "closed"
    /\ IF running[n] THEN Report(n, task) ELSE UNCHANGED reported
    /\ tasks' = [tasks EXCEPT ![n][task] =
                     LoopCheck(n, IF task = "listener" THEN "recv" ELSE "accept")]
    /\ UNCHANGED <<known_nodes, relay_vars, library_vars, now, node_info, running, sockets,
                   wake, evicted, file_vars>>

\* An entry the janitor takes for stale even at the timeout itself.
ExpiredAtTimeout(current_time, node) == current_time - node.last_seen >= NODE_TIMEOUT

\* `current_time - node.last_seen > self.NODE_TIMEOUT`
Expired(current_time, node) == current_time - node.last_seen > NODE_TIMEOUT

\* _cleanup_old_nodes: one pass after the sleep, and the loop test with the
\* start of the next sleep.
_cleanup_old_nodes(n) ==
    /\ tasks[n].janitor = "sleep"
    /\ now >= wake[n].janitor
    /\ LET current_time == now
           kept == SelectSeq(known_nodes[n],
                             LAMBDA id : ~Expired(current_time, node_info[n][id]))
       IN  /\ known_nodes' = [known_nodes EXCEPT ![n] = kept]
           /\ evicted' = evicted \cup
                  {[node |-> n, node_id |-> id, at |-> current_time] :
                       id \in Range(known_nodes[n]) \ Range(kept)}
           /\ node_info' = [node_info EXCEPT ![n] =
                               [id \in Range(kept) |-> node_info[n][id]]]
    /\ tasks' = [tasks EXCEPT ![n].janitor = LoopCheck(n, "sleep")]
    /\ wake' = [wake EXCEPT ![n].janitor = IF running[n] THEN now + CLEANUP_SLEEP ELSE 0]
    /\ UNCHANGED <<relay_vars, library_vars, now, running, sockets, reported, file_vars>>

\* MeshNode.get_known_nodes
get_known_nodes(n) ==
    [i \in 1..Len(known_nodes[n]) |-> node_info[n][known_nodes[n][i]]]

(***************************************************************************)
(* Initial states.                                                         *)
(***************************************************************************)
Chain3 == [n \in {"A", "R", "B"} |->
              CASE n = "A" -> <<"R">>
                [] n = "R" -> <<"A", "B">>
                [] n = "B" -> <<"R">>]

Triangle == [n \in {"A", "R", "B"} |->
                CASE n = "A" -> <<"R", "B">>
                  [] n = "R" -> <<"A", "B">>
                  [] n = "B" -> <<"A", "R">>]

NoFile == [exists |-> FALSE, trusted_nodes |-> EmptyMap, trust_scores |-> EmptyMap,
           order |-> <<>>]

\* A ledger file left by an earlier run: A is known, with a low score.
OldFile == [exists |-> TRUE, trusted_nodes |-> ("A" :> KeyOf("A")),
            trust_scores |-> ("A" :> 10), order |-> <<"A">>]

\* The nodes run without authentication, or with it, or all but A with it.
AllPlain == [n \in Nodes |-> FALSE]
AllAuth == [n \in Nodes |-> TRUE]
Mixed == [n \in Nodes |-> n # "A"]

InitRelay(topologies, mixed, downs, msgs) ==
    /\ known_nodes \in topologies
    /\ enable_auth \in {AllPlain, AllAuth} \cup (IF mixed THEN {Mixed} ELSE {})
    /\ down \in downs
    /\ message_cache = [n \in Nodes |-> {}]
    /\ \E file \in {NoFile, OldFile} :
          /\ (\A n \in Nodes : ~enable_auth[n]) => file = NoFile
          /\ trust_file = [n \in Nodes |-> IF enable_auth[n] THEN file ELSE NoFile]
    /\ trusted_nodes = [n \in Nodes |-> trust_file[n].trusted_nodes]
    /\ trust_scores = [n \in Nodes |-> trust_file[n].trust_scores]
    /\ score_order = [n \in Nodes |-> trust_file[n].order]
    /\ net = EmptyBag
    /\ handlers = EmptyBag
    /\ sent = EmptyBag
    /\ delivered = EmptyBag
    /\ drops = {}
    /\ originated = {}
    /\ raised = {}
    /\ message_callbacks = [n \in Nodes |-> <<>>]
    /\ called = EmptyBag
    /\ routing_table = EmptyMap
    /\ link_latencies = EmptyMap
    /\ topology = <<>>
    /\ routes = None
    /\ returned = None
    /\ \E m \in msgs : next_id = m[1] /\ ext_left = m[2]

\* Callbacks that return, as many as a manager gets registered.
Returning == [k \in 1..NumCallbacks |-> "returns"]

\* A FileTransferManager after __init__, with an empty save_directory, and
\* its callbacks registered.
InitFiles ==
    /\ transfer_states = EmptyMap
    /\ save_directory = EmptyMap
    /\ completed = <<>>
    /\ processed = <<>>
    /\ completion_callbacks = Returning
    /\ transfer_lock = "free"
    /\ stack = <<>>

\* The nodes after start(), each neighbour heard at time 0.
InitStarted ==
    /\ now = 0
    /\ node_info = [n \in Nodes |->
                       [id \in Range(known_nodes[n]) |->
                           NodeInfo(id, AddrOf(id), DATA_PORT, 0, HostOf(id))]]
    /\ running = [n \in Nodes |-> TRUE]
    /\ sockets = [n \in Nodes |-> [discovery |-> "open", data |-> "open"]]
    /\ tasks = [n \in Nodes |-> [listener |-> "recv", broadcaster |-> "sleep",
                                  acceptor |-> "accept", janitor |-> "sleep"]]
    /\ wake = [n \in Nodes |-> [broadcaster |-> BROADCAST_INTERVAL,
                                 janitor |-> CLEANUP_SLEEP]]
    /\ reported = {}
    /\ evicted = {}

InitWith(topologies, mixed, downs, msgs) ==
    /\ InitRelay(topologies, mixed, downs, msgs)
    /\ InitStarted
    /\ InitFiles

\* Two nodes that are each other's only neighbour.
Pair == [n \in {"A", "B"} |->
            CASE n = "A" -> <<"B">>
              [] n = "B" -> <<"A">>]

Init == InitWith({Chain3, Triangle, Pair}, TRUE, {{}}, {<<1, MaxExt>>})

\* A line of nodes, each knowing its two neighbours, longer than MAX_TTL hops.
ChainNames ==
    <<"A", "R", "B", "n04", "n05", "n06", "n07", "n08", "n09", "n10", "n11",
      "n12", "n13", "n14", "n15", "n16", "n17", "n18", "n19", "n20", "n21",
      "n22", "n23">>

ChainLong ==
    [n \in Range(ChainNames) |->
        LET i == CHOOSE k \in 1..Len(ChainNames) : ChainNames[k] = n
        IN  (IF i > 1 THEN <<ChainNames[i - 1]>> ELSE <<>>) \o
            (IF i < Len(ChainNames) THEN <<ChainNames[i + 1]>> ELSE <<>>)]

\* One message in the long line: the last send_message call, or one frame
\* of another client.
InitChain == InitWith({ChainLong}, FALSE, {{}}, {<<MaxSend, 0>>, <<MaxSend + 1, 1>>})

Next ==
    \/ /\ next_id <= MaxSend
       /\ \E n \in Nodes, d \in Nodes \cup {BROADCAST}, x \in Cleartexts :
              d # n /\ send_message(n, d, x)
    \/ /\ ext_left > 0
       /\ \E n \in Nodes : \E e \in ForeignEnvelopes(n) \cup SeenOnWire :
              ExternalFrame(n, e)
    \/ \E f \in BagToSet(net) : HandleCheck(f)
    \/ \E h \in BagToSet(handlers) : HandleAdd(h)
    \/ \E h \in BagToSet(handlers) : TrustRead(h)
    \/ \E h \in BagToSet(handlers) : TrustWrite(h)
    \/ \E h \in BagToSet(handlers) : Admit(h)
    \/ \E h \in BagToSet(handlers) : Dispatch(h)
    \/ \E n \in Nodes : cleanup_untrusted_nodes(n)

Spec == Init /\ [][Next]_vars

SpecChain == InitChain /\ [][Next]_vars

\* The same nodes when some data ports refuse connections and when a
\* neighbour table is empty.
Sparse == [n \in {"A", "R", "B"} |->
              CASE n = "A" -> <<"R", "B">>
                [] n = "R" -> <<>>
                [] n = "B" -> <<"R", "A">>]

InitFaulty ==
    InitWith({Chain3, Sparse}, TRUE, {{}, {"R"}, {"B"}, {"R", "B"}}, {<<1, MaxExt>>})

SpecFaulty == InitFaulty /\ [][Next]_vars

\* The trust ledger of one auth-enabled node under calls of its three
\* mutating operations, one call at a time.
MaxDelta == 150
Deltas == {-MaxDelta, -30, -20, 1, MaxDelta}
Thresholds == {10, 60}
LedgerIds == {"A", "M"}
Solo == [n \in {"R"} |-> <<>>]

InitLedger == InitWith({Solo}, FALSE, {{}}, {<<MaxSend + 1, 0>>})

NextLedger ==
    \/ \E n \in Nodes, id \in LedgerIds, delta \in Deltas :
           enable_auth[n] /\ update_trust_score(n, id, delta)
    \/ \E n \in Nodes, id \in LedgerIds : \E key \in {KeyOf(id), ForeignKey} :
           enable_auth[n] /\ add_trusted_node(n, id, key, 50)
    \/ \E n \in Nodes, threshold \in Thresholds :
           enable_auth[n] /\ remove_untrusted_nodes(n, threshold)

SpecLedger == InitLedger /\ [][NextLedger]_vars

\* Two nodes whose data ports are also used by clients that write
\* malformed frames or stall.
InitFrames == InitWith({Pair}, TRUE, {{}}, {<<1, MaxExt>>})

NextFrames ==
    \/ Next
    \/ /\ ext_left > 0
       /\ \E n \in Nodes : \E e \in MalformedFrames(n) : ExternalFrame(n, e)
    \/ \E n \in Nodes : ExternalStall(n)
    \/ \E h \in BagToSet(handlers) : PeerCloses(h)

SpecFrames == InitFrames /\ [][NextFrames]_vars

\* Every handler thread is scheduled; nothing is assumed of the clients.
SpecFramesLive ==
    /\ SpecFrames
    /\ WF_vars(\E f \in BagToSet(net) : HandleCheck(f))
    /\ WF_vars(\E h \in BagToSet(handlers) : HandleAdd(h))
    /\ WF_vars(\E h \in BagToSet(handlers) : TrustRead(h))
    /\ WF_vars(\E h \in BagToSet(handlers) : TrustWrite(h))
    /\ WF_vars(\E h \in BagToSet(handlers) : Admit(h))
    /\ WF_vars(\E h \in BagToSet(handlers) : Dispatch(h))

\* One node from its construction on: start, the datagrams of its
\* discovery port, its threads, the clock, stop.
InitDiscovery ==
    /\ InitRelay({Solo}, FALSE, {{}}, {<<MaxSend + 1, 0>>})
    /\ enable_auth = AllPlain
    /\ now = 0
    /\ node_info = [n \in Nodes |-> EmptyMap]
    /\ running = [n \in Nodes |-> FALSE]
    /\ sockets = [n \in Nodes |-> [discovery |-> "none", data |-> "none"]]
    /\ tasks = [n \in Nodes |-> [listener |-> "none", broadcaster |-> "none",
                                  acceptor |-> "none", janitor |-> "none"]]
    /\ wake = [n \in Nodes |-> [broadcaster |-> 0, janitor |-> 0]]
    /\ reported = {}
    /\ evicted = {}
    /\ InitFiles

NextDiscovery ==
    \/ \E n \in Nodes : start(n)
    \/ \E n \in Nodes : stop(n)
    \/ TimePasses
    \/ \E n \in Nodes : BroadcasterSend(n)
    \/ \E n \in Nodes : BroadcasterWake(n)
    \/ \E n \in Nodes : \E d \in Datagrams(n) : _discovery_listener(n, d)
    \/ \E n \in Nodes, task \in {"listener", "acceptor"} : SocketClosed(n, task)
    \/ \E n \in Nodes : _cleanup_old_nodes(n)

SpecDiscovery == InitDiscovery /\ [][NextDiscovery]_vars

\* The clock advances, and the janitor thread of a node is scheduled.
SpecDiscoveryLive ==
    /\ SpecDiscovery
    /\ WF_vars(TimePasses)
    /\ \A n \in DOMAIN Solo : WF_vars(_cleanup_old_nodes(n))

(***************************************************************************)
(* FileTransferManager (file_transfer.py).  The bytes of a file are a      *)
(* sequence of numbers; a path of save_directory is the name of the file    *)
(* under the directory.                                                    *)
(***************************************************************************)
ChunkSize == 2          \* CHUNK_SIZE (64 KiB), scaled down
MaxChunkCalls == 4      \* process_chunk calls in a behaviour

\* base64.b64encode(...).decode('utf-8') and base64.b64decode
b64encode(bytes) == [b64 |-> bytes]
b64decode(text) == text.b64

\* The files of the sender.
SourceFiles ==
    [filename \in {"a.txt", "b.bin", "b_1.bin", "empty"} |->
        CASE filename = "a.txt" -> <<1, 2, 3, 4, 5>>
          [] filename = "b.bin" -> <<6>>
          [] filename = "b_1.bin" -> <<7>>
          [] filename = "empty" -> <<>>]

\* `hashlib.sha256(f"{filename}{file_size}".encode()).hexdigest()[:16]`: the
\* digest of the name followed by the decimal size; the digest is taken as
\* collision free, the concatenation is kept as it is.
FileId(filename, file_size) == filename \o ToString(file_size)

FileChunk(file_id, filename, chunk_index, total_chunks, data, file_size) ==
    [file_id |-> file_id, filename |-> filename, chunk_index |-> chunk_index,
     total_chunks |-> total_chunks, data |-> data, file_size |-> file_size]

FileTransferState(file_id, filename, total_chunks, received_chunks, file_size, complete) ==
    [file_id |-> file_id, filename |-> filename, total_chunks |-> total_chunks,
     received_chunks |-> received_chunks, file_size |-> file_size,
     complete |-> complete]

\* The reads of CHUNK_SIZE bytes until the read is empty.
RECURSIVE ReadChunks(_)
ReadChunks(rest) ==
    IF rest = <<>> THEN <<>>
    ELSE IF Len(rest) <= ChunkSize THEN <<rest>>
    ELSE <<SubSeq(rest, 1, ChunkSize)>> \o
         ReadChunks(SubSeq(rest, ChunkSize + 1, Len(rest)))

\* FileTransferManager.prepare_file_for_transfer
prepare_file_for_transfer(filename) ==
    LET content == SourceFiles[filename]
        file_size == Len(content)
        pieces == ReadChunks(content)
    IN  [i \in 1..Len(pieces) |->
            FileChunk(FileId(filename, file_size), filename, i - 1, Len(pieces),
                      b64encode(pieces[i]), file_size)]

\* os.path.splitext of the filenames in use: the base name and the
\* extension from its last dot.
splitext(filename) ==
    CASE filename = "a.txt" -> <<"a", ".txt">>
      [] filename = "b.bin" -> <<"b", ".bin">>
      [] filename = "b_1.bin" -> <<"b_1", ".bin">>
      [] filename = "empty" -> <<"empty", "">>

\* `os.path.join(self.save_directory, state.filename)` for counter 0 and
\* `os.path.join(self.save_directory, f"{base_name}_{counter}{ext}")` for
\* the others, relative to save_directory.
PathOf(filename, counter) ==
    IF counter = 0 THEN filename
    ELSE splitext(filename)[1] \o "_" \o ToString(counter) \o splitext(filename)[2]

\* A search that tries no counter: the path of the filename itself.
RECURSIVE FreePathPlain(_, _, _)
FreePathPlain(directory, filename, counter) ==
    IF counter >= 0 THEN PathOf(filename, 0)
    ELSE FreePathPlain(directory, filename, counter + 1)

\* The first free path of _save_complete_file: the filename, or the
\* filename with the first counter from 1 that names no file.
RECURSIVE FreePath(_, _, _)
FreePath(directory, filename, counter) ==
    IF PathOf(filename, counter) \notin DOMAIN directory
    THEN PathOf(filename, counter)
    ELSE FreePath(directory, filename, counter + 1)

\* A writer that joins the chunks from the last index down.
RECURSIVE WriteChunksDescending(_, _)
WriteChunksDescending(received_chunks, i) ==
    IF i = 0 THEN <<>>
    ELSE (IF i - 1 \in DOMAIN received_chunks THEN received_chunks[i - 1] ELSE <<>>)
         \o WriteChunksDescending(received_chunks, i - 1)

\* `for i in range(state.total_chunks): if i in state.received_chunks:
\* f.write(state.received_chunks[i])`, for the indices below i.
RECURSIVE WriteChunks(_, _)
WriteChunks(received_chunks, i) ==
    IF i = 0 THEN <<>>
    ELSE WriteChunks(received_chunks, i - 1) \o
         (IF i - 1 \in DOMAIN received_chunks THEN received_chunks[i - 1] ELSE <<>>)

\* The loop over completion_callbacks at the end of _save_complete_file:
\* every callback is called in its order with the filename and the path,
\* and the exception of one is caught and printed.
CallbackCalls(filename, file_path) ==
    [calls |-> [k \in 1..Len(completion_callbacks) |->
                   [callback |-> k, filename |-> filename, file_path |-> file_path,
                    trapped |-> completion_callbacks[k] = "raises"]],
     propagates |-> FALSE]

\* FileTransferManager.register_completion_callback
register_completion_callback(callback) ==
    /\ Len(completion_callbacks) < NumCallbacks
    /\ completion_callbacks' = Append(completion_callbacks, callback)
    /\ UNCHANGED <<known_nodes, relay_vars, library_vars, discovery_vars,
                   transfer_states, save_directory, completed, processed,
                   transfer_lock, stack>>

\* Chunks that no prepare_file_for_transfer made: an index past the last
\* one of b.bin, other bytes under an index of a.txt, and a transfer of no
\* chunks.
ForeignChunks ==
    LET a == prepare_file_for_transfer("a.txt")[1]
        b == prepare_file_for_transfer("b.bin")[1]
    IN  {[b EXCEPT !.chunk_index = b.total_chunks],
         [a EXCEPT !.data = b64encode(<<9, 9>>)],
         FileChunk(FileId("empty", 0), "empty", 0, 0, b64encode(<<>>), 0)}

Chunks ==
    UNION {Range(prepare_file_for_transfer(filename)) : filename \in DOMAIN SourceFiles}
    \cup ForeignChunks

\* FileTransferManager.process_chunk, under transfer_lock.  The division
\* of the progress line raises ZeroDivisionError when total_chunks is 0,
\* after the chunk was stored.
process_chunk(chunk) ==
    /\ Len(processed) < MaxChunkCalls
    /\ LET created == IF chunk.file_id \notin DOMAIN transfer_states
                      THEN FileTransferState(chunk.file_id, chunk.filename,
                                             chunk.total_chunks, EmptyMap,
                                             chunk.file_size, FALSE)
                      ELSE transfer_states[chunk.file_id]
           state == [created EXCEPT !.received_chunks =
                        MapPut(@, chunk.chunk_index, b64decode(chunk.data))]
           done == Cardinality(DOMAIN state.received_chunks) = state.total_chunks
           file_path == FreePath(save_directory, state.filename, 0)
           loop == CallbackCalls(state.filename, file_path)
       IN  IF state.total_chunks = 0
           THEN /\ transfer_states' = MapPut(transfer_states, chunk.file_id, state)
                /\ processed' = Append(processed,
                       [chunk |-> chunk, result |-> "ZeroDivisionError"])
                /\ UNCHANGED <<save_directory, completed>>
           ELSE IF done
           THEN /\ save_directory' = MapPut(save_directory, file_path,
                       WriteChunks(state.received_chunks, state.total_chunks))
                /\ completed' = completed \o loop.calls
                /\ transfer_states' = MapPut(transfer_states, chunk.file_id,
                       [state EXCEPT !.complete = ~loop.propagates])
                /\ processed' = Append(processed,
                       [chunk |-> chunk,
                        result |-> IF loop.propagates THEN "Exception" ELSE "True"])
           ELSE /\ transfer_states' = MapPut(transfer_states, chunk.file_id, state)
                /\ processed' = Append(processed, [chunk |-> chunk, result |-> "False"])
                /\ UNCHANGED <<save_directory, completed>>
    /\ UNCHANGED <<known_nodes, relay_vars, library_vars, discovery_vars,
                   completion_callbacks, transfer_lock, stack>>

\* FileTransferManager.get_transfer_progress: None, or the quotient as
\* numerator and denominator; the division raises when total_chunks is 0.
get_transfer_progress(file_id) ==
    IF file_id \notin DOMAIN transfer_states THEN None
    ELSE IF transfer_states[file_id].total_chunks = 0 THEN "ZeroDivisionError"
    ELSE [num |-> Cardinality(DOMAIN transfer_states[file_id].received_chunks),
          den |-> transfer_states[file_id].total_chunks]

\* FileTransferManager.cleanup_completed_transfers
cleanup_completed_transfers ==
    /\ \E file_id \in DOMAIN transfer_states : transfer_states[file_id].complete
    /\ transfer_states' =
           [file_id \in {f \in DOMAIN transfer_states : ~transfer_states[f].complete}
               |-> transfer_states[file_id]]
    /\ UNCHANGED <<known_nodes, relay_vars, library_vars, discovery_vars,
                   save_directory, completed, processed, completion_callbacks,
                   transfer_lock, stack>>

\* A save_directory that holds a file named a.txt from an earlier transfer.
OldDirectory == ("a.txt" :> <<0>>)

\* A save_directory that holds the files of two earlier transfers of b.bin.
FullDirectory == ("b.bin" :> <<0>> @@ "b_1.bin" :> <<1>>)

InitTransfer ==
    /\ InitRelay({Solo}, FALSE, {{}}, {<<MaxSend + 1, 0>>})
    /\ enable_auth = AllPlain
    /\ InitStarted
    /\ transfer_states = EmptyMap
    /\ save_directory \in {EmptyMap, OldDirectory, FullDirectory}
    /\ completed = <<>>
    /\ processed = <<>>
    /\ completion_callbacks = Returning
    /\ transfer_lock = "free"
    /\ stack = <<>>

NextTransfer ==
    \/ \E chunk \in Chunks : process_chunk(chunk)
    \/ cleanup_completed_transfers

SpecTransfer == InitTransfer /\ [][NextTransfer]_vars

\* One node and one transfer manager whose callbacks are registered while
\* frames and chunks arrive; a callback returns or raises an Exception.
CallbackKinds == {"returns", "raises"}

InitCallbacks ==
    /\ InitRelay({Solo}, FALSE, {{}}, {<<MaxSend + 1, MaxExt>>})
    /\ enable_auth = AllPlain
    /\ InitStarted
    /\ transfer_states = EmptyMap
    /\ save_directory = EmptyMap
    /\ completed = <<>>
    /\ processed = <<>>
    /\ completion_callbacks = <<>>
    /\ transfer_lock = "free"
    /\ stack = <<>>

NextCallbacks ==
    \/ \E n \in Nodes, callback \in CallbackKinds :
           register_message_callback(n, callback)
    \/ \E callback \in CallbackKinds : register_completion_callback(callback)
    \/ /\ ext_left > 0
       /\ \E n \in Nodes : \E e \in ForeignEnvelopes(n) : ExternalFrame(n, e)
    \/ \E f \in BagToSet(net) : HandleCheck(f)
    \/ \E h \in BagToSet(handlers) : HandleAdd(h)
    \/ \E h \in BagToSet(handlers) : Dispatch(h)
    \/ /\ Len(processed) < MaxChunkCalls
       /\ \E chunk \in Range(prepare_file_for_transfer("b.bin")) :
              process_chunk(chunk)

SpecCallbacks == InitCallbacks /\ [][NextCallbacks]_vars

(***************************************************************************)
(* MessageRouter (message_router.py).  A latency is a whole number of      *)
(* units; a graph maps a node to its list of <<neighbor, weight>>.         *)
(***************************************************************************)
DefaultLatency == 1     \* the 1.0 of an unmeasured link
MaxTopologyCalls == 2   \* update_topology calls in a behaviour

RouterNodes == {"A", "B", "C", "D"}

\* The order of node ids as strings, by which heapq orders the entries of
\* one distance.
NodeRank(n) == CASE n = "A" -> 1 [] n = "B" -> 2 [] n = "C" -> 3 [] n = "D" -> 4

\* The None of `previous` and of _find_next_hop, among node ids.
NoNode == "None"

RouteInfo(destination, next_hop, hop_count, total_latency) ==
    [destination |-> destination, next_hop |-> next_hop,
     hop_count |-> hop_count, total_latency |-> total_latency]

\* `d.get(k, default)`
MapGet(f, k, default) == IF k \in DOMAIN f THEN f[k] ELSE default

\* heapq.heappop: the least entry, by distance and then by node id.
HeapMin(pq) ==
    CHOOSE e \in pq : \A o \in pq :
        \/ e[1] < o[1]
        \/ e[1] = o[1] /\ NodeRank(e[2]) <= NodeRank(o[2])

\* The loop over the edges of current_node: an edge that gives its end a
\* strictly shorter distance records it and pushes it.
RECURSIVE RelaxEdges(_, _, _, _)
RelaxEdges(st, current_dist, current_node, edges) ==
    IF edges = <<>> THEN st
    ELSE LET neighbor == Head(edges)[1]
             weight == Head(edges)[2]
             distance == current_dist + weight
             hop_count == st.hop_counts[current_node] + 1
             shorter == neighbor \notin DOMAIN st.distances
                        \/ distance < st.distances[neighbor]
             next == IF shorter
                     THEN [distances |-> MapPut(st.distances, neighbor, distance),
                           hop_counts |-> MapPut(st.hop_counts, neighbor, hop_count),
                           previous |-> MapPut(st.previous, neighbor, current_node),
                           pq |-> st.pq \cup {<<distance, neighbor>>}]
                     ELSE st
         IN  RelaxEdges(next, current_dist, current_node, Tail(edges))

\* `while pq:` of _compute_routes
RECURSIVE DijkstraLoop(_, _)
DijkstraLoop(st, graph) ==
    IF st.pq = {} THEN st
    ELSE LET e == HeapMin(st.pq)
             popped == [st EXCEPT !.pq = @ \ {e}]
         IN  IF e[1] > st.distances[e[2]]
             THEN DijkstraLoop(popped, graph)
             ELSE DijkstraLoop(
                      RelaxEdges(popped, e[1], e[2], MapGet(graph, e[2], <<>>)),
                      graph)

\* A walk that stops at the node before the destination.
RECURSIVE FindNextHopLast(_, _, _)
FindNextHopLast(source, destination, previous) ==
    IF destination \notin DOMAIN previous THEN NoNode
    ELSE IF previous[destination] = NoNode THEN NoNode
    ELSE IF previous[destination] = source THEN destination
    ELSE previous[destination]

\* MessageRouter._find_next_hop: from the destination back along previous
\* to the node whose predecessor is the source.
RECURSIVE _find_next_hop(_, _, _)
_find_next_hop(source, destination, previous) ==
    IF destination \notin DOMAIN previous THEN NoNode
    ELSE IF MapGet(previous, destination, NoNode) = source THEN destination
    ELSE IF MapGet(previous, destination, NoNode) = NoNode THEN NoNode
    ELSE _find_next_hop(source, MapGet(previous, destination, NoNode), previous)

\* MessageRouter._compute_routes
_compute_routes(source, graph) ==
    LET st == DijkstraLoop([distances |-> (source :> 0),
                            hop_counts |-> (source :> 0),
                            previous |-> (source :> NoNode),
                            pq |-> {<<0, source>>}], graph)
        hop(dest_node) == _find_next_hop(source, dest_node, st.previous)
        dests == {dest_node \in DOMAIN st.distances \ {source} :
                     hop(dest_node) # NoNode /\ hop(dest_node) # ""}
    IN  [dest_node \in dests |->
            RouteInfo(dest_node, hop(dest_node), st.hop_counts[dest_node],
                      st.distances[dest_node])]

\* A graph whose links all have the latency of an unmeasured one.
RECURSIVE TopologyGraphUnmeasured(_, _, _)
TopologyGraphUnmeasured(graph, node_id, known) ==
    IF known = <<>> THEN graph
    ELSE LET node == Head(known)
             out == MapPut(graph, node_id,
                           Append(graph[node_id], <<node, DefaultLatency>>))
             back == MapPut(out, node,
                            Append(MapGet(out, node, <<>>), <<node_id, DefaultLatency>>))
         IN  TopologyGraphUnmeasured(back, node_id, Tail(known))

\* The graph update_topology builds: the local node tied to every node of
\* known_nodes in both directions, by the latency of the link from the
\* local node.
RECURSIVE TopologyGraph(_, _, _)
TopologyGraph(graph, node_id, known) ==
    IF known = <<>> THEN graph
    ELSE LET node == Head(known)
             latency == MapGet(link_latencies, <<node_id, node>>, DefaultLatency)
             out == MapPut(graph, node_id, Append(graph[node_id], <<node, latency>>))
             back == MapPut(out, node,
                            Append(MapGet(out, node, <<>>), <<node_id, latency>>))
         IN  TopologyGraph(back, node_id, Tail(known))

\* MessageRouter.update_topology
update_topology(node_id, known_nodes_now) ==
    /\ Len(topology) < MaxTopologyCalls
    /\ routing_table' =
           _compute_routes(node_id,
                           TopologyGraph((node_id :> <<>>), node_id, known_nodes_now))
    /\ topology' = Append(topology,
                          [node_id |-> node_id, known_nodes |-> known_nodes_now])
    /\ UNCHANGED <<known_nodes, relay_vars, discovery_vars, file_vars,
                   link_latencies, routes, returned>>

\* MessageRouter.update_link_latency
update_link_latency(node1, node2, latency) ==
    /\ link_latencies' =
           MapPut(MapPut(link_latencies, <<node1, node2>>, latency),
                  <<node2, node1>>, latency)
    /\ UNCHANGED <<known_nodes, relay_vars, discovery_vars, file_vars,
                   routing_table, topology, routes, returned>>

\* `routes = router._compute_routes(source, graph)` on a graph of the
\* caller's.
ComputeRoutes(source, graph) ==
    /\ routes' = [source |-> source, graph |-> graph,
                  table |-> _compute_routes(source, graph)]
    /\ UNCHANGED <<known_nodes, relay_vars, discovery_vars, file_vars,
                   routing_table, link_latencies, topology, returned>>

\* A router under measurements of the links of A and recomputations of its
\* table, for a local node and lists of neighbours with repeats.
TopologyNodes == {"A", "B", "C"}
Latencies == {2, 5}
NeighborLists ==
    {<<>>} \cup {<<n>> : n \in TopologyNodes}
    \cup {<<n, m>> : n \in TopologyNodes, m \in TopologyNodes}

InitTopology ==
    /\ InitWith({Solo}, FALSE, {{}}, {<<MaxSend + 1, 0>>})
    /\ enable_auth = AllPlain

NextTopology ==
    \/ \E node2 \in TopologyNodes \ {"A"}, latency \in Latencies :
           update_link_latency("A", node2, latency)
    \/ \E node_id \in TopologyNodes, known \in NeighborLists :
           update_topology(node_id, known)

SpecTopology == InitTopology /\ [][NextTopology]_vars

(***************************************************************************)
(* _compute_routes on graphs of the caller's: the graph of the self-test,  *)
(* every undirected graph on its four nodes with links of weight 1 or 3    *)
(* and every directed graph on three of them with edges of weight 1 or 2,  *)
(* with adjacency lists in either order, from every source.  A node        *)
(* without edges has no key in the graph.                                  *)
(***************************************************************************)
LinkWeights == {1, 3}
EdgeWeights == {1, 2}
NodeOrders == {<<"A", "B", "C", "D">>, <<"D", "C", "B", "A">>}

\* The adjacency list of u: its edges of a weight other than 0, in order.
RECURSIVE EdgeList(_, _, _)
EdgeList(w, u, order) ==
    IF order = <<>> THEN <<>>
    ELSE (IF w[u, Head(order)] > 0
          THEN <<<<Head(order), w[u, Head(order)]>>>> ELSE <<>>)
         \o EdgeList(w, u, Tail(order))

GraphOf(w, order) ==
    [u \in {v \in RouterNodes : EdgeList(w, v, order) # <<>>}
        |-> EdgeList(w, u, order)]

Links == {<<"A", "B">>, <<"A", "C">>, <<"A", "D">>,
          <<"B", "C">>, <<"B", "D">>, <<"C", "D">>}

UndirectedWeights ==
    {[u \in RouterNodes, v \in RouterNodes |->
         IF <<u, v>> \in Links THEN l[<<u, v>>]
         ELSE IF <<v, u>> \in Links THEN l[<<v, u>>] ELSE 0] :
     l \in [Links -> LinkWeights \cup {0}]}

DirectedWeights ==
    {[u \in RouterNodes, v \in RouterNodes |->
         IF <<u, v>> \in DOMAIN l THEN l[<<u, v>>] ELSE 0] :
     l \in [{<<u, v>> \in TopologyNodes \X TopologyNodes : u # v}
               -> EdgeWeights \cup {0}]}

\* test_graph of the self-test
test_graph ==
    "A" :> <<<<"B", 1>>, <<"D", 2>>>> @@ "B" :> <<<<"A", 1>>, <<"C", 1>>>>
    @@ "C" :> <<<<"B", 1>>, <<"D", 1>>>> @@ "D" :> <<<<"A", 2>>, <<"C", 1>>>>

Graphs ==
    {test_graph}
    \cup {GraphOf(w, order) : w \in UndirectedWeights \cup DirectedWeights,
                              order \in NodeOrders}

InitRoutes ==
    /\ InitWith({Solo}, FALSE, {{}}, {<<MaxSend + 1, 0>>})
    /\ enable_auth = AllPlain

\* One call on a router, as in the self-test.
NextRoutes ==
    \E source \in RouterNodes, graph \in Graphs :
        /\ routes = None
        /\ ComputeRoutes(source, graph)

SpecRoutes == InitRoutes /\ [][NextRoutes]_vars

(***************************************************************************)
(* CryptoManager at the level of bytes (crypto_utils.py).  The bytes that  *)
(* base64 encodes are modelled by what AES-CBC under the key makes of      *)
(* them: the length of the IV part, the length of the ciphertext part and  *)
(* the bytes the ciphertext part decrypts to.  Flipping bits of the IV or  *)
(* of a ciphertext block flips the same bits of the next decrypted block,  *)
(* so every last block is the decryption of some input.                    *)
(***************************************************************************)
AES_block_size == 16

Raised == [raised |-> TRUE, value |-> <<>>]
Returned(value) == [raised |-> FALSE, value |-> value]

CipherData(iv_len, ciphertext_len, padded_plaintext) ==
    [iv_len |-> iv_len, ciphertext_len |-> ciphertext_len,
     padded_plaintext |-> padded_plaintext]

\* base64 text that b64decode cannot take ("padding": a wrong number of
\* characters) or takes after discarding what is outside the alphabet
\* ("alphabet"), for the same bytes.
Base64Faulty(data, fault) == [b64 |-> data, fault |-> fault]

\* `base64.b64decode(ciphertext_b64)` raises binascii.Error
B64DecodeRaises(text) == "fault" \in DOMAIN text /\ text.fault = "padding"

\* `sequence[:-n]`: for n = 0 the slice [:0], which is empty; a slice whose
\* end is before the start is empty.
SliceOffEnd(sequence, n) ==
    IF n = 0 \/ n >= Len(sequence) THEN <<>>
    ELSE SubSeq(sequence, 1, Len(sequence) - n)

\* `plaintext.decode('utf-8')` raises UnicodeDecodeError: the bytes of this
\* model from 128 on are not UTF-8 on their own.
Utf8DecodeRaises(bytes) == \E i \in 1..Len(bytes) : bytes[i] >= 128

\* CryptoManager.encrypt on the bytes of the plaintext
CbcEncrypt(plaintext_bytes) ==
    LET padding_length == AES_block_size - (Len(plaintext_bytes) % AES_block_size)
        padded_plaintext == plaintext_bytes \o [i \in 1..padding_length |-> padding_length]
    IN  b64encode(CipherData(AES_block_size, Len(padded_plaintext), padded_plaintext))

\* CryptoManager.decrypt: every exception of the body is raised again as
\* ValueError.
CbcDecrypt(ciphertext_b64) ==
    IF B64DecodeRaises(ciphertext_b64) THEN Raised
    ELSE LET data == b64decode(ciphertext_b64)
             padded_plaintext == data.padded_plaintext
         IN  IF data.iv_len # AES_block_size THEN Raised
             ELSE IF data.ciphertext_len % AES_block_size # 0 THEN Raised
             ELSE IF padded_plaintext = <<>> THEN Raised
             ELSE LET padding_length == padded_plaintext[Len(padded_plaintext)]
                      plaintext == SliceOffEnd(padded_plaintext, padding_length)
                  IN  IF Utf8DecodeRaises(plaintext) THEN Raised
                      ELSE Returned(plaintext)

\* The inputs of decrypt: what encrypt returns, one and two blocks with
\* every choice of their last bytes, data too short for an IV or with a
\* ciphertext part of no or of broken blocks, and base64 faults.
Fill(n) == [i \in 1..n |-> 65]
TailBytes == {0, 1, 2, 3, 16, 17, 65, 200}
LastBlocks ==
    {Fill(AES_block_size - 3) \o <<a, b, c>> : a \in TailBytes, b \in TailBytes, c \in TailBytes}
    \cup {Fill(AES_block_size) \o [i \in 1..AES_block_size |-> AES_block_size]}
    \cup {Fill(2 * AES_block_size - 1) \o <<c>> : c \in {1, 17, 32, 33}}
CipherTexts ==
    {CbcEncrypt(Fill(n)) : n \in {0, 1, AES_block_size - 1, AES_block_size}}
    \cup {b64encode(CipherData(AES_block_size, Len(p), p)) : p \in LastBlocks}
    \cup {b64encode(CipherData(n, 0, <<>>)) : n \in {0, 7, AES_block_size}}
    \cup {b64encode(CipherData(AES_block_size, n, <<>>)) : n \in {5, AES_block_size + 1}}
    \cup {Base64Faulty(CipherData(AES_block_size, Len(p), p), fault) :
              p \in {Fill(AES_block_size - 1) \o <<1>>}, fault \in {"padding", "alphabet"}}

\* `crypto.decrypt(text)`
DecryptCall(text) ==
    /\ returned' = [op |-> "decrypt", arg |-> text, result |-> CbcDecrypt(text)]
    /\ UNCHANGED <<known_nodes, relay_vars, discovery_vars, file_vars,
                   routing_table, link_latencies, topology, routes>>

InitCrypto ==
    /\ InitWith({Solo}, FALSE, {{}}, {<<MaxSend + 1, 0>>})
    /\ enable_auth = AllPlain

NextCrypto == \E text \in CipherTexts : DecryptCall(text)

SpecCrypto == InitCrypto /\ [][NextCrypto]_vars

(***************************************************************************)
(* AuthenticationManager.verify_signature on signed messages changed in    *)
(* one place (auth_system.py).                                             *)
(***************************************************************************)
SignerIds == {"A", "B", "M", "R"}
SignedTexts == {Text(s) : s \in {"x", "y", "important"}}
Keys == {KeyOf(id) : id \in SignerIds} \cup {ForeignKey}

\* The signed messages that differ from the blob in one of the four fields
\* of its JSON; a changed signature is the signature of another key or of
\* another text.
Mutations(blob) ==
    {[field |-> "message", blob |-> [blob EXCEPT !.message = m]] :
         m \in SignedTexts \ {blob.message}}
    \cup {[field |-> "signer_id", blob |-> [blob EXCEPT !.signer_id = id]] :
              id \in SignerIds \ {blob.signer_id}}
    \cup {[field |-> "public_key", blob |-> [blob EXCEPT !.public_key = k]] :
              k \in Keys \ {blob.public_key}}
    \cup {[field |-> "signature", blob |-> [blob EXCEPT !.signature.key = k]] :
              k \in Keys \ {blob.signature.key}}
    \cup {[field |-> "signature", blob |-> [blob EXCEPT !.signature.over = m]] :
              m \in SignedTexts \ {blob.signature.over}}

\* `auth.verify_signature(tampered_message)` on a signed message of
\* sign_message that was changed in one field.
VerifyCall(message, node_id, mutation) ==
    /\ returned' = [op |-> "verify_signature",
                    arg |-> [signed |-> sign_message(message, node_id, KeyOf(node_id)),
                             field |-> mutation.field,
                             tampered |-> mutation.blob],
                    result |-> verify_signature(mutation.blob)]
    /\ UNCHANGED <<known_nodes, relay_vars, discovery_vars, file_vars,
                   routing_table, link_latencies, topology, routes>>

InitAuth ==
    /\ InitWith({Solo}, FALSE, {{}}, {<<MaxSend + 1, 0>>})
    /\ enable_auth = AllPlain

NextAuth ==
    \E message \in SignedTexts, node_id \in SignerIds :
        \E mutation \in Mutations(sign_message(message, node_id, KeyOf(node_id))) :
            VerifyCall(message, node_id, mutation)

SpecAuth == InitAuth /\ [][NextAuth]_vars

(***************************************************************************)
(* The calls of one thread into a FileTransferManager, statement by        *)
(* statement: the acquisition of transfer_lock (a threading.Lock, which    *)
(* the thread that holds it cannot acquire again), the body under the      *)
(* lock, and the completion callbacks, which may call back into the        *)
(* manager.                                                                *)
(***************************************************************************)
Methods == {"process_chunk", "get_transfer_progress", "cleanup_completed_transfers"}

Frame(op, chunk) ==
    [op |-> op, pc |-> "acquire", chunk |-> chunk, k |-> 0, file_path |-> ""]

Top == stack[Len(stack)]
Pop == SubSeq(stack, 1, Len(stack) - 1)
SetTop(frame) == [stack EXCEPT ![Len(stack)] = frame]

\* A call of a method by the thread, from outside the manager: for
\* get_transfer_progress the file_id is that of the chunk.
Call(op, chunk) ==
    /\ stack = <<>>
    /\ Len(processed) < MaxChunkCalls
    /\ stack' = <<Frame(op, chunk)>>
    /\ UNCHANGED <<known_nodes, relay_vars, library_vars, discovery_vars,
                   transfer_states, save_directory, completed, processed,
                   completion_callbacks, transfer_lock>>

\* `with self.transfer_lock:` of the innermost call
AcquireLock ==
    /\ stack # <<>>
    /\ Top.pc = "acquire"
    /\ transfer_lock = "free"
    /\ transfer_lock' = "held"
    /\ stack' = SetTop([Top EXCEPT !.pc = "body"])
    /\ UNCHANGED <<known_nodes, relay_vars, library_vars, discovery_vars,
                   transfer_states, save_directory, completed, processed,
                   completion_callbacks>>

\* process_chunk from the creation of the state to the file written by
\* _save_complete_file, or to its return when chunks are missing.
ChunkBody ==
    /\ stack # <<>>
    /\ Top.op = "process_chunk" /\ Top.pc = "body"
    /\ LET chunk == Top.chunk
           created == IF chunk.file_id \notin DOMAIN transfer_states
                      THEN FileTransferState(chunk.file_id, chunk.filename,
                                             chunk.total_chunks, EmptyMap,
                                             chunk.file_size, FALSE)
                      ELSE transfer_states[chunk.file_id]
           state == [created EXCEPT !.received_chunks =
                        MapPut(@, chunk.chunk_index, b64decode(chunk.data))]
           done == Cardinality(DOMAIN state.received_chunks) = state.total_chunks
           file_path == FreePath(save_directory, state.filename, 0)
       IN  /\ transfer_states' = MapPut(transfer_states, chunk.file_id, state)
           /\ IF state.total_chunks = 0 \/ ~done
              THEN /\ processed' = Append(processed,
                          [chunk |-> chunk,
                           result |-> IF state.total_chunks = 0
                                      THEN "ZeroDivisionError" ELSE "False"])
                   /\ transfer_lock' = "free"
                   /\ stack' = Pop
                   /\ UNCHANGED save_directory
              ELSE /\ save_directory' = MapPut(save_directory, file_path,
                          WriteChunks(state.received_chunks, state.total_chunks))
                   /\ stack' = SetTop([Top EXCEPT !.pc = "callbacks", !.k = 1,
                                                  !.file_path = file_path])
                   /\ UNCHANGED <<processed, transfer_lock>>
    /\ UNCHANGED <<known_nodes, relay_vars, library_vars, discovery_vars,
                   completed, completion_callbacks>>

\* One turn of the loop over completion_callbacks: the callback is called,
\* and a callback that calls a method of the manager enters it.
InvokeCallback ==
    /\ stack # <<>>
    /\ Top.op = "process_chunk" /\ Top.pc = "callbacks"
    /\ Top.k <= Len(completion_callbacks)
    /\ completed' = Append(completed,
           [callback |-> Top.k, filename |-> Top.chunk.filename,
            file_path |-> Top.file_path,
            trapped |-> completion_callbacks[Top.k] = "raises"])
    /\ stack' = IF completion_callbacks[Top.k] \in Methods
                THEN Append(SetTop([Top EXCEPT !.k = @ + 1]),
                            Frame(completion_callbacks[Top.k], Top.chunk))
                ELSE SetTop([Top EXCEPT !.k = @ + 1])
    /\ UNCHANGED <<known_nodes, relay_vars, library_vars, discovery_vars,
                   transfer_states, save_directory, processed,
                   completion_callbacks, transfer_lock>>

\* `state.complete = True; return True` after the loop, leaving the with
\* block.
ChunkReturn ==
    /\ stack # <<>>
    /\ Top.op = "process_chunk" /\ Top.pc = "callbacks"
    /\ Top.k > Len(completion_callbacks)
    /\ transfer_states' = [transfer_states EXCEPT ![Top.chunk.file_id].complete = TRUE]
    /\ processed' = Append(processed, [chunk |-> Top.chunk, result |-> "True"])
    /\ transfer_lock' = "free"
    /\ stack' = Pop
    /\ UNCHANGED <<known_nodes, relay_vars, library_vars, discovery_vars,
                   save_directory, completed, completion_callbacks>>

\* The body of get_transfer_progress, which returns a value.
ProgressBody ==
    /\ stack # <<>>
    /\ Top.op = "get_transfer_progress" /\ Top.pc = "body"
    /\ transfer_lock' = "free"
    /\ stack' = Pop
    /\ UNCHANGED <<known_nodes, relay_vars, library_vars, discovery_vars,
                   transfer_states, save_directory, completed, processed,
                   completion_callbacks>>

\* The body of cleanup_completed_transfers.
CleanupBody ==
    /\ stack # <<>>
    /\ Top.op = "cleanup_completed_transfers" /\ Top.pc = "body"
    /\ transfer_states' =
           [file_id \in {f \in DOMAIN transfer_states : ~transfer_states[f].complete}
               |-> transfer_states[file_id]]
    /\ transfer_lock' = "free"
    /\ stack' = Pop
    /\ UNCHANGED <<known_nodes, relay_vars, library_vars, discovery_vars,
                   save_directory, completed, processed, completion_callbacks>>

\* A manager with two callbacks of any kind, and the chunks of two files.
InitReentrant ==
    /\ InitRelay({Solo}, FALSE, {{}}, {<<MaxSend + 1, 0>>})
    /\ enable_auth = AllPlain
    /\ InitStarted
    /\ transfer_states = EmptyMap
    /\ save_directory = EmptyMap
    /\ completed = <<>>
    /\ processed = <<>>
    /\ completion_callbacks \in [1..NumCallbacks -> CallbackKinds \cup Methods]
    /\ transfer_lock = "free"
    /\ stack = <<>>

Step ==
    \/ AcquireLock
    \/ ChunkBody
    \/ InvokeCallback
    \/ ChunkReturn
    \/ ProgressBody
    \/ CleanupBody

NextReentrant ==
    \/ /\ stack = <<>>
       /\ \E op \in Methods :
              \E filename \in {"a.txt", "b.bin"} :
                  \E chunk \in Range(prepare_file_for_transfer(filename)) :
                      Call(op, chunk)
    \/ Step

SpecReentrant == InitReentrant /\ [][NextReentrant]_vars

\* The thread is scheduled as long as it can take a step.
SpecReentrantLive == SpecReentrant /\ WF_vars(Step)

(***************************************************************************)
(* Properties.                                                             *)
(***************************************************************************)
RECURSIVE SumCopies(_, _)
SumCopies(B, S) ==
    IF S = {} THEN 0
    ELSE LET e == CHOOSE x \in S : TRUE
         IN  CopiesIn(e, B) + SumCopies(B, S \ {e})

\* How often node n called its callbacks for msg_id m, and how often it
\* relayed m.
Deliveries(n, m) ==
    SumCopies(delivered, {d \in BagToSet(delivered) : d.node = n /\ d.env.msg_id = m})
Forwards(n, m) ==
    SumCopies(sent, {s \in BagToSet(sent) :
                        s.from = n /\ s.kind = "relay" /\ s.env.msg_id = m})

\* Nothing is on the wire and no handler runs: no node will act again on
\* the messages sent so far.
Quiescent == net = EmptyBag /\ handlers = EmptyBag

\* No frame came from a client other than the nodes.
NoExternalFrame == ext_left = MaxExt

\* The envelope was made by send_message of a node.
FromSend(e) == e.msg_id \notin ForeignIds

NoRepeat(route) ==
    \A i, j \in 1..Len(route) : route[i] = route[j] => i = j

\* The signature of a signed message matches its public key and its text.
SignatureValid(blob) ==
    /\ blob.signature.key = blob.public_key
    /\ blob.signature.over = blob.message

IsSigned(p) == {"message", "signature", "public_key", "signer_id"} \subseteq DOMAIN p

RECURSIVE Hops(_, _, _, _)
Hops(frontier, seen, d, k) ==
    IF d \in frontier THEN k
    ELSE IF frontier = {} THEN -1
    ELSE LET nxt == {m \in Nodes : \E n \in frontier : InRoute(known_nodes[n], m)} \ seen
         IN  Hops(nxt, seen \cup nxt, d, k + 1)

\* Hops on the shortest path from s to d in the neighbour tables (-1: none).
Distance(s, d) == Hops({s}, {s}, d, 0)

\* C1: a relay transmits the payload it received: in every _send_to_node
\* call of a relaying handler, the payload of the transmitted envelope is
\* the payload of the envelope the handler received.
C1_PayloadNeverMutated ==
    \A s \in BagToSet(sent) :
        s.kind = "relay" => s.env.payload = s.rcvd.payload

\* C2: in the chain A-R-B with every transmission succeeding, all nodes
\* configured alike and no other client, once a unicast send(B, x) of A has
\* run its course, B has called its callbacks exactly once for it, with
\* payload x and source_id A.
C2_ChainUnicastDelivers ==
    \A o \in originated :
        (/\ known_nodes = Chain3
         /\ enable_auth \in {AllPlain, AllAuth}
         /\ down = {}
         /\ NoExternalFrame
         /\ o.source_id = "A"
         /\ o.dest_id = "B"
         /\ Quiescent)
        => /\ Deliveries("B", o.msg_id) = 1
           /\ \A d \in BagToSet(delivered) :
                  (d.node = "B" /\ d.env.msg_id = o.msg_id)
                  => d.env.payload = o.text /\ d.env.source_id = "A"

\* C3: in the chain A-R-B with all nodes configured alike and no other
\* client, once a broadcast of A has run its course, R and B have both
\* delivered it, and the envelope delivered at B has ttl MAX_TTL - 1 and a
\* route ending in A, R, B.
C3_ChainBroadcastRelayed ==
    \A o \in originated :
        (/\ known_nodes = Chain3
         /\ enable_auth \in {AllPlain, AllAuth}
         /\ down = {}
         /\ NoExternalFrame
         /\ o.source_id = "A"
         /\ o.dest_id = BROADCAST
         /\ Quiescent)
        => /\ Deliveries("R", o.msg_id) >= 1
           /\ \E d \in BagToSet(delivered) :
                  /\ d.node = "B"
                  /\ d.env.msg_id = o.msg_id
                  /\ d.env.ttl = MAX_TTL - 1
                  /\ Len(d.env.route) >= 3
                  /\ SubSeq(d.env.route, Len(d.env.route) - 2, Len(d.env.route))
                         = <<"A", "R", "B">>

\* C4: every node calls its callbacks at most once and relays at most once
\* for every msg_id, whatever the interleaving of its connection handlers.
C4_AtMostOnce ==
    \A n \in Nodes :
        \A m \in {d.env.msg_id : d \in BagToSet(delivered)}
                 \cup {s.env.msg_id : s \in BagToSet(sent)} :
            Deliveries(n, m) <= 1 /\ Forwards(n, m) <= 1

\* C5: in every step in which a node calls its callbacks for a received
\* envelope, the msg_id of the envelope is in the node's duplicate cache.
C5_DeliveredIsCached ==
    [][\A d \in BagToSet(delivered') :
          CopiesIn(d, delivered') > CopiesIn(d, delivered)
          => d.env.msg_id \in message_cache[d.node]]_vars

C5_Witness ==
    \E d \in BagToSet(delivered) :
        FromSend(d.env) /\ d.env.msg_id \in message_cache[d.node]

\* C6: for the envelopes made by send_message, the originator transmits
\* ttl = MAX_TTL, every relay transmits the ttl it received less 1, a
\* delivery leaves the ttl as received, and no envelope is transmitted or
\* delivered with ttl < 0.
C6_TtlDiscipline ==
    /\ \A s \in BagToSet(sent) :
           FromSend(s.env)
           => /\ s.kind = "send" => s.env.ttl = MAX_TTL
              /\ s.kind = "relay" => s.env.ttl = s.rcvd.ttl - 1
              /\ s.env.ttl >= 0
    /\ \A d \in BagToSet(delivered) :
           FromSend(d.env) => d.env.ttl = d.rcvd.ttl /\ d.env.ttl >= 0

C6_Witness ==
    \E s \in BagToSet(sent) :
        FromSend(s.env) /\ s.kind = "relay" /\ s.ok /\ s.env.ttl = MAX_TTL - 1

C8_TtlExhaustionDrop ==
    \A o \in originated :
        (/\ o.source_id = "A"
         /\ o.dest_id \in Nodes
         /\ Distance(o.source_id, o.dest_id) > MAX_TTL)
        => /\ Deliveries(o.dest_id, o.msg_id) = 0
           /\ Quiescent
              => /\ \E r \in drops : r.msg_id = o.msg_id /\ r.reason = "ttl"
                 /\ \A r \in drops : r.msg_id = o.msg_id => r.reason = "ttl"

\* C9: an auth-enabled node delivers or relays an envelope only if the
\* decrypted payload is a signed message whose signature is valid and whose
\* signer_id is the envelope's source_id, and the payload it hands on is the
\* text of that signed message.
C9_AuthenticationGate ==
    /\ \A d \in BagToSet(delivered) :
           enable_auth[d.node]
           => /\ ~decrypt_raises(d.rcvd.payload)
              /\ IsSigned(decrypt(d.rcvd.payload))
              /\ SignatureValid(decrypt(d.rcvd.payload))
              /\ decrypt(d.rcvd.payload).signer_id = d.rcvd.source_id
              /\ d.env.payload = decrypt(d.rcvd.payload).message
    /\ \A s \in BagToSet(sent) :
           (s.kind = "relay" /\ enable_auth[s.from])
           => /\ ~decrypt_raises(s.rcvd.payload)
              /\ IsSigned(decrypt(s.rcvd.payload))
              /\ SignatureValid(decrypt(s.rcvd.payload))
              /\ decrypt(s.rcvd.payload).signer_id = s.rcvd.source_id

C9_Witness ==
    /\ \E d \in BagToSet(delivered) : enable_auth[d.node]
    /\ \E r \in drops : r.reason = "signature"

\* C10: in the step in which a handler ends on a failed authentication
\* check, no callback is called, nothing is transmitted, and the score of
\* the envelope's source_id (50 if it had none) goes down by 20, or by 30
\* when the signature is valid and the signer_id differs, not below 0.
C10_RejectionPenalty ==
    [][\A h \in BagToSet(handlers) :
          (/\ h.pc = "trust_write"
           /\ CopiesIn(h, handlers') < CopiesIn(h, handlers)
           /\ \/ ~IsSigned(decrypt(h.env.payload))
              \/ ~SignatureValid(decrypt(h.env.payload))
              \/ decrypt(h.env.payload).signer_id # h.env.source_id)
          => LET src == h.env.source_id
                 old == IF src \in DOMAIN trust_scores[h.node]
                        THEN trust_scores[h.node][src] ELSE 50
                 penalty == IF /\ IsSigned(decrypt(h.env.payload))
                               /\ SignatureValid(decrypt(h.env.payload))
                            THEN 30 ELSE 20
             IN  /\ delivered' = delivered
                 /\ sent' = sent
                 /\ src \in DOMAIN trust_scores'[h.node]
                 /\ trust_scores'[h.node][src] =
                        (IF old - penalty < 0 THEN 0 ELSE old - penalty)]_vars

\* The handler h leaves the program point pc in this step.
Leaves(h, pc) == h.pc = pc /\ CopiesIn(h, handlers') < CopiesIn(h, handlers)

\* The score the ledger of node n holds for id (0 when it holds none, as
\* is_trusted reads it).
ScoreOf(n, id) == IF id \in DOMAIN trust_scores[n] THEN trust_scores[n][id] ELSE 0

\* C11: in the step in which an auth-enabled node ends the authentication
\* check of a successfully verified message from a source that has no key in
\* its ledger, the source gets the public key carried inside the signed
\* message and the score 50.
C11_AutoAdmission ==
    [][\A h \in BagToSet(handlers) :
          (/\ Leaves(h, "admit")
           /\ h.env.source_id \notin DOMAIN trusted_nodes[h.node])
          => /\ h.env.source_id \in DOMAIN trusted_nodes'[h.node]
             /\ trusted_nodes'[h.node][h.env.source_id] =
                    decrypt(h.env.payload).public_key
             /\ h.env.source_id \in DOMAIN trust_scores'[h.node]
             /\ trust_scores'[h.node][h.env.source_id] = 50]_vars

C11_Witness ==
    \E n \in Nodes :
        /\ enable_auth[n]
        /\ "A" \in DOMAIN trusted_nodes[n] \cap DOMAIN trust_scores[n]
        /\ trusted_nodes[n]["A"] = ForeignKey
        /\ trust_scores[n]["A"] = 50

\* C12: in the step in which an auth-enabled node ends the handling of an
\* envelope addressed to another node with ttl > 0, from a source whose key
\* is in its ledger, it forwards the envelope if the source's score is at
\* least 20, and it transmits nothing and delivers nothing if the score is
\* below 20.
C12_RelayRefusal ==
    [][\A h \in BagToSet(handlers) :
          (/\ Leaves(h, "dispatch")
           /\ enable_auth[h.node]
           /\ h.env.dest_id \notin {h.node, BROADCAST}
           /\ h.env.ttl > 0
           /\ h.env.source_id \in DOMAIN trusted_nodes[h.node])
          => LET score == ScoreOf(h.node, h.env.source_id)
                 refused == [node |-> h.node, msg_id |-> h.env.msg_id,
                             reason |-> "untrusted"]
                 outside == {m \in Range(known_nodes[h.node]) :
                                ~InRoute(h.env.route, m) /\ m # h.node}
             IN  /\ score < 20
                    => /\ sent' = sent
                       /\ net' = net
                       /\ delivered' = delivered
                       /\ refused \in drops'
                 /\ score >= 20
                    => /\ refused \in drops' <=> refused \in drops
                       /\ outside # {} => sent' # sent]_vars

C12_Witness ==
    /\ \E r \in drops : r.reason = "untrusted"
    /\ \E s \in BagToSet(sent) : s.kind = "relay" /\ enable_auth[s.from] /\ s.ok

\* C13: every score stored in a trust ledger, in memory or in the file, is
\* between 0 and 100, whatever updates, admissions with score 50 and purges
\* were called.
C13_ScoreBounds ==
    \A n \in Nodes :
        /\ \A id \in DOMAIN trust_scores[n] :
               0 <= trust_scores[n][id] /\ trust_scores[n][id] <= 100
        /\ \A id \in DOMAIN trust_file[n].trust_scores :
               /\ 0 <= trust_file[n].trust_scores[id]
               /\ trust_file[n].trust_scores[id] <= 100

C13_Witness ==
    \E n \in Nodes :
        /\ DOMAIN trust_scores[n] = {"A", "M"}
        /\ trust_scores[n]["A"] = 100
        /\ trust_scores[n]["M"] = 0

\* A handler of node n is inside the authentication check, between the
\* score update and the admission.
InAuthCheck(n) ==
    \E h \in BagToSet(handlers) : h.node = n /\ h.pc \in {"trust_write", "admit"}

\* C14: whenever no handler of a node is inside the authentication check,
\* the ids that have a score in the node's ledger are the ids that have a
\* public key in it.
C14_SingleMap ==
    \A n \in Nodes :
        ~InAuthCheck(n) => DOMAIN trust_scores[n] = DOMAIN trusted_nodes[n]

\* A step of cleanup_untrusted_nodes on node n that changes the ledger or
\* raises.
PurgeStep(n) ==
    /\ handlers' = handlers
    /\ net' = net
    /\ next_id' = next_id
    /\ \/ trust_scores'[n] # trust_scores[n]
       \/ trusted_nodes'[n] # trusted_nodes[n]
       \/ \E r \in raised' \ raised : r.node = n

\* C15: a purge with threshold 10 never raises; it removes the key and the
\* score of every id whose score is below 10 and leaves the key and the
\* score of every other id as they were.
C15_PurgeCompletes ==
    [][\A n \in Nodes :
          PurgeStep(n)
          => /\ raised' = raised
             /\ \A id \in DOMAIN trust_scores[n] :
                    IF trust_scores[n][id] < 10
                    THEN /\ id \notin DOMAIN trust_scores'[n]
                         /\ id \notin DOMAIN trusted_nodes'[n]
                    ELSE /\ id \in DOMAIN trust_scores'[n]
                         /\ trust_scores'[n][id] = trust_scores[n][id]
                         /\ id \in DOMAIN trusted_nodes[n]
                            => /\ id \in DOMAIN trusted_nodes'[n]
                               /\ trusted_nodes'[n][id] = trusted_nodes[n][id]]_vars

\* C16: after every call of update, add or purge that changed the ledger in
\* memory and returned, the trust file holds the keys and the scores of the
\* ledger in memory.
C16_LedgerPersisted ==
    [][\A n \in Nodes :
          (/\ \/ trust_scores'[n] # trust_scores[n]
              \/ trusted_nodes'[n] # trusted_nodes[n]
           /\ raised' = raised)
          => /\ trust_file'[n].exists
             /\ trust_file'[n].trusted_nodes = trusted_nodes'[n]
             /\ trust_file'[n].trust_scores = trust_scores'[n]]_vars

C16_Witness ==
    \E n \in Nodes :
        /\ trust_file[n].exists
        /\ DOMAIN trusted_nodes[n] = {"M"}
        /\ DOMAIN trust_scores[n] = {"M"}
        /\ "A" \in DOMAIN OldFile.trusted_nodes
        /\ trust_file[n].trusted_nodes = trusted_nodes[n]
        /\ trust_file[n].trust_scores = trust_scores[n]

\* C17: every score update of a handler acts on the score the ledger holds
\* when the update stores its result: after the store, the score in memory
\* and in the trust file is the score before the store (50 if none) plus
\* the handler's delta, limited to 0..100, so that no update of another
\* handler is lost.
C17_UpdatesSerialized ==
    [][\A h \in BagToSet(handlers) :
          Leaves(h, "trust_write")
          => LET src == h.env.source_id
                 blob == decrypt(h.env.payload)
                 old == IF src \in DOMAIN trust_scores[h.node]
                        THEN trust_scores[h.node][src] ELSE 50
                 delta == IF ~IsSigned(blob) THEN -20
                          ELSE IF ~SignatureValid(blob) THEN -20
                          ELSE IF blob.signer_id # src THEN -30
                          ELSE 1
                 new == IF old + delta < 0 THEN 0
                        ELSE IF old + delta > 100 THEN 100
                        ELSE old + delta
             IN  /\ src \in DOMAIN trust_scores'[h.node]
                 /\ trust_scores'[h.node][src] = new
                 /\ src \in DOMAIN trust_file'[h.node].trust_scores
                 /\ trust_file'[h.node].trust_scores[src] = new]_vars

\* C18: every envelope transmitted by send_message has the sender as
\* source_id, ttl MAX_TTL and the route [sender]; its msg_id is in the
\* sender's duplicate cache from the send on, and the sender never calls its
\* callbacks for it and never relays it, also when a copy comes back.
C18_OriginatorSuppression ==
    /\ \A s \in BagToSet(sent) :
           s.kind = "send"
           => /\ s.env.source_id = s.from
              /\ s.env.ttl = MAX_TTL
              /\ s.env.route = <<s.from>>
              /\ \E o \in originated :
                     o.msg_id = s.env.msg_id /\ o.source_id = s.from
    /\ \A o \in originated :
           /\ o.msg_id \in message_cache[o.source_id]
           /\ Deliveries(o.source_id, o.msg_id) = 0
           /\ Forwards(o.source_id, o.msg_id) = 0

C18_Witness ==
    \E o \in originated :
        /\ \E s \in BagToSet(sent) : s.kind = "send" /\ s.env.msg_id = o.msg_id /\ s.ok
        /\ [node |-> o.source_id, msg_id |-> o.msg_id, reason |-> "duplicate"] \in drops

\* The _send_to_node calls of this step, and how many of them go to node t.
Attempts == sent' (-) sent
AttemptsTo(t) == SumCopies(Attempts, {a \in BagToSet(Attempts) : a.to = t})

\* The frames this step puts on the wire for node t.
FramesTo(t) == SumCopies(net' (-) net, {f \in BagToSet(net' (-) net) : f.to = t})

\* The first neighbour of node n that is not in route ("" if there is none).
FirstOutside(n, route) ==
    LET table == known_nodes[n]
        idx == {i \in 1..Len(table) : ~InRoute(route, table[i])}
    IN  IF idx = {} THEN ""
        ELSE table[CHOOSE i \in idx : \A j \in idx : i <= j]

\* C19: a send_message with dest "broadcast" calls _send_to_node once for
\* every neighbour in the table and for no other node, whether or not the
\* other calls fail; a frame goes to every neighbour that accepts it; the
\* call returns TRUE iff at least one neighbour accepted, and FALSE when the
\* table is empty.
C19_BroadcastResult ==
    [][\A o \in originated' \ originated :
          o.dest_id = BROADCAST
          => LET table == Range(known_nodes[o.source_id])
             IN  /\ \A t \in Nodes :
                        AttemptsTo(t) = (IF t \in table THEN 1 ELSE 0)
                 /\ \A a \in BagToSet(Attempts) :
                        /\ a.from = o.source_id
                        /\ a.env.msg_id = o.msg_id
                        /\ a.ok <=> a.to \notin down
                 /\ \A t \in Nodes :
                        FramesTo(t) = (IF t \in table \ down THEN 1 ELSE 0)
                 /\ \A f \in BagToSet(net' (-) net) : f.env.msg_id = o.msg_id
                 /\ o.result <=> (table \ down # {})
                 /\ table = {} => ~o.result]_vars

C19_Witness ==
    \E o \in originated :
        /\ o.dest_id = BROADCAST
        /\ o.result
        /\ known_nodes[o.source_id] = <<"R", "B">>
        /\ down = {"R"}
        /\ \E s \in BagToSet(sent) : s.env.msg_id = o.msg_id /\ s.to = "R" /\ ~s.ok
        /\ \E s \in BagToSet(sent) : s.env.msg_id = o.msg_id /\ s.to = "B" /\ s.ok

\* C20: a unicast send_message and a relay each call _send_to_node at most
\* once, on the first neighbour in the table that is not in the envelope's
\* route, and on no other node after a failure; the send returns the result
\* of that call; when every neighbour is in the route nothing is transmitted
\* and the send returns FALSE.
C20_BaselineForwarding ==
    [][/\ \A o \in originated' \ originated :
             o.dest_id # BROADCAST
             => LET target == FirstOutside(o.source_id, <<o.source_id>>)
                IN  IF target = ""
                    THEN /\ Attempts = EmptyBag
                         /\ net' = net
                         /\ ~o.result
                    ELSE /\ BagCardinality(Attempts) = 1
                         /\ AttemptsTo(target) = 1
                         /\ o.result <=> target \notin down
                         /\ target \in down => net' = net
       /\ \A h \in BagToSet(handlers) :
             (Leaves(h, "dispatch") /\ originated' = originated)
             => LET route == h.env.route \o <<h.node>>
                    target == FirstOutside(h.node, route)
                IN  /\ BagCardinality(Attempts) <= 1
                    /\ \A a \in BagToSet(Attempts) :
                           /\ a.to = target
                           /\ ~InRoute(route, a.to)
                           /\ a.ok <=> a.to \notin down
                    /\ (target = "" \/ target \in down) => net' = net]_vars

C20_Witness ==
    \E o \in originated :
        /\ o.dest_id = "B"
        /\ ~o.result
        /\ known_nodes[o.source_id] = <<"R", "B">>
        /\ down = {"R"}
        /\ \E s \in BagToSet(sent) : s.env.msg_id = o.msg_id /\ s.to = "R" /\ ~s.ok
        /\ \A s \in BagToSet(sent) : s.env.msg_id = o.msg_id => s.to = "R"

\* C21: two auth-enabled nodes A and B, each the other's only neighbour, and
\* no other client: once send(B, x) of A has run its course, B has called
\* its callbacks exactly once for it, with payload x, source_id A and
\* route <<A, B>>.
C21_SecureUnicast ==
    \A o \in originated :
        (/\ known_nodes = Pair
         /\ enable_auth = AllAuth
         /\ NoExternalFrame
         /\ o.source_id = "A"
         /\ o.dest_id = "B"
         /\ Quiescent)
        => /\ Deliveries("B", o.msg_id) = 1
           /\ \A d \in BagToSet(delivered) :
                  (d.node = "B" /\ d.env.msg_id = o.msg_id)
                  => /\ d.env.payload = o.text
                     /\ d.env.source_id = "A"
                     /\ d.env.route = <<"A", "B">>

C21_Witness ==
    /\ known_nodes = Pair
    /\ enable_auth = AllAuth
    /\ NoExternalFrame
    /\ Quiescent
    /\ \E o \in originated :
           /\ o.source_id = "A" /\ o.dest_id = "B"
           /\ o.text = encrypt(Text("hello"))
           /\ Deliveries("B", o.msg_id) = 1

\* A datagram that carries a discovery beacon with all its fields.
WellFormedBeacon(d) ==
    /\ ~JsonLoadsRaises(d.data)
    /\ GetType(JsonLoads(d.data)) = "discovery"
    /\ {"node_id", "hostname", "port"} \subseteq DOMAIN JsonLoads(d.data)

\* C22: the local id is never a key of the neighbour table.  When the
\* discovery listener takes a well-formed beacon, a beacon carrying the
\* local id changes nothing in the table, and any other beacon makes the
\* entry of its node_id a NodeInfo with last_seen the time of receipt,
\* leaves every other entry as it was and adds no other key.
C22_SelfBeaconIgnored ==
    /\ [](\A n \in Nodes : n \notin DOMAIN node_info[n] /\ ~InRoute(known_nodes[n], n))
    /\ [][\A n \in Nodes : \A d \in Datagrams(n) :
            (_discovery_listener(n, d) /\ WellFormedBeacon(d))
            => LET id == JsonLoads(d.data).node_id
               IN  IF id = n
                   THEN known_nodes' = known_nodes /\ node_info' = node_info
                   ELSE /\ DOMAIN node_info'[n] = DOMAIN node_info[n] \cup {id}
                        /\ Range(known_nodes'[n]) = DOMAIN node_info'[n]
                        /\ node_info'[n][id].node_id = id
                        /\ node_info'[n][id].last_seen = now
                        /\ \A other \in DOMAIN node_info[n] \ {id} :
                               node_info'[n][other] = node_info[n][other]
                        /\ \A m \in Nodes \ {n} : node_info'[m] = node_info[m]]_vars

\* A was inserted, then B, then the entry of A was replaced.
C22_Witness ==
    /\ known_nodes["R"] = <<"A", "B">>
    /\ node_info["R"]["A"].last_seen = Tick
    /\ node_info["R"]["B"].last_seen = 0

\* C23: a pass of the janitor removes exactly the entries with
\* now - last_seen > NODE_TIMEOUT and leaves the others as they were, in
\* their order; and while the node runs, the entry of a peer whose beacons
\* have stopped is eventually removed.
C23_JanitorEvicts ==
    /\ [][\A n \in Nodes :
            _cleanup_old_nodes(n)
            => LET stale == {id \in DOMAIN node_info[n] :
                                now - node_info[n][id].last_seen > NODE_TIMEOUT}
               IN  /\ DOMAIN node_info'[n] = DOMAIN node_info[n] \ stale
                   /\ \A id \in DOMAIN node_info'[n] :
                          node_info'[n][id] = node_info[n][id]
                   /\ known_nodes'[n] =
                          SelectSeq(known_nodes[n], LAMBDA id : id \notin stale)]_vars
    /\ \A n \in DOMAIN Solo, p \in Peers :
           (InRoute(known_nodes[n], p) /\ now > BeaconsUntil)
           ~> (~InRoute(known_nodes[n], p) \/ ~running[n])

\* A pass removed the entry of A and kept the younger entry of B.
C23_Witness ==
    /\ \E e \in evicted : e.node = "R" /\ e.node_id = "A"
    /\ running["R"]
    /\ known_nodes["R"] = <<"B">>

\* C24: while a node runs and its janitor is not overdue (it sleeps and
\* the end of its sleep lies ahead), every entry get_known_nodes returns
\* satisfies now - last_seen <= NODE_TIMEOUT.
C24_NeighborFreshness ==
    \A n \in Nodes :
        (running[n] /\ tasks[n].janitor = "sleep" /\ wake[n].janitor > now)
        => \A i \in 1..Len(get_known_nodes(n)) :
               now - get_known_nodes(n)[i].last_seen <= NODE_TIMEOUT

\* C25: once stop() has closed the sockets of a started node, running is
\* false and both sockets are closed; and no thread prints a socket error
\* it met while running was false.
C25_CooperativeShutdown ==
    /\ \A n \in Nodes :
           (sockets[n].discovery = "closed" \/ sockets[n].data = "closed")
           => /\ ~running[n]
              /\ sockets[n] = [discovery |-> "closed", data |-> "closed"]
    /\ \A e \in reported : e.running

\* C26: every connection handler eventually finishes: from any moment on,
\* the node reaches a moment at which none of its handler threads runs.
C26_HandlerTerminates ==
    []<>(handlers = EmptyBag)

\* A frame is malformed when it is no JSON or its keys are not exactly the
\* fields of the envelope.
Malformed(data) ==
    "bytes" \in DOMAIN data \/ DOMAIN data # MessageFields

\* What the callbacks got and what was transmitted, and the node's ability
\* to accept, are as before the step.
NothingHappened ==
    /\ delivered' = delivered
    /\ sent' = sent
    /\ known_nodes' = known_nodes
    /\ running' = running /\ sockets' = sockets /\ tasks' = tasks

\* C27: a handler given a frame that is truncated, is no JSON or has a
\* missing or an unknown envelope field ends without calling a callback,
\* transmitting anything or changing the duplicate cache, and leaves the
\* node accepting; so does a handler whose payload fails decryption, after
\* the insertion into the duplicate cache.  No envelope that was delivered
\* or relayed came from such a frame.
C27_MalformedFrameIsLocal ==
    /\ [][/\ \A f \in BagToSet(net) :
               (HandleCheck(f) /\ Malformed(f.env))
               => /\ NothingHappened
                  /\ net' = net (-) SetToBag({f})
                  /\ handlers' = handlers
                  /\ message_cache' = message_cache
          /\ \A h \in BagToSet(handlers) :
               (PeerCloses(h) \/ (HandleAdd(h) /\ decrypt_raises(h.env.payload)))
               => /\ NothingHappened
                  /\ net' = net
                  /\ handlers' = handlers (-) SetToBag({h})
                  /\ PeerCloses(h) => message_cache' = message_cache]_vars
    /\ [](\A d \in BagToSet(delivered) :
              ~Malformed(d.rcvd) /\ ~decrypt_raises(d.rcvd.payload))
    /\ [](\A x \in BagToSet(sent) :
              ~Malformed(x.rcvd) /\ ~decrypt_raises(x.rcvd.payload))

\* A frame that does not parse was dropped at B, and B delivered the
\* message A sent to it.
C27_Witness ==
    /\ \E d \in drops : d.node = "B" /\ d.reason = "parse"
    /\ \E d \in BagToSet(delivered) : d.node = "B"
    /\ Quiescent

\* The chunk was processed before and its index is among the received
\* chunks of its transfer.
AlreadyReceived(chunk) ==
    /\ \E i \in 1..Len(processed) : processed[i].chunk = chunk
    /\ chunk.file_id \in DOMAIN transfer_states
    /\ chunk.chunk_index \in DOMAIN transfer_states[chunk.file_id].received_chunks

\* C28: process_chunk on a chunk that was already received, before or
\* after the completion of its transfer, changes no transfer state, writes
\* no file and calls no completion callback.
C28_ReassemblerIdempotent ==
    [][\A chunk \in Chunks :
          (process_chunk(chunk) /\ AlreadyReceived(chunk))
          => /\ transfer_states' = transfer_states
             /\ save_directory' = save_directory
             /\ completed' = completed]_vars

\* The chunks processed so far are the chunks of the file, each once.
DeliveredOnce(filename) ==
    LET chunks == prepare_file_for_transfer(filename)
    IN  /\ Len(chunks) >= 1
        /\ Len(processed) = Len(chunks)
        /\ {processed[i].chunk : i \in 1..Len(processed)} = Range(chunks)

\* C29: when the chunks prepare_file_for_transfer made of a file have been
\* processed once each, in any order, only the last call returned True,
\* every completion callback was called exactly once, with the filename
\* and one path, the file at that path holds the bytes of the original,
\* and no other file was written.
C29_FileRoundTrip ==
    \A filename \in DOMAIN SourceFiles :
        DeliveredOnce(filename)
        => /\ \A i \in 1..Len(processed) :
                  processed[i].result = IF i = Len(processed) THEN "True" ELSE "False"
           /\ Len(completed) = NumCallbacks
           /\ \A k \in 1..NumCallbacks :
                  /\ completed[k].callback = k
                  /\ completed[k].filename = filename
                  /\ completed[k].file_path = completed[1].file_path
           /\ completed[1].file_path \in DOMAIN save_directory
           /\ save_directory[completed[1].file_path] = SourceFiles[filename]
           /\ \E old \in {EmptyMap, OldDirectory, FullDirectory} :
                  \A path \in DOMAIN save_directory \ {completed[1].file_path} :
                      /\ path \in DOMAIN old
                      /\ save_directory[path] = old[path]

\* The three chunks of a.txt arrived last chunk first, into a directory
\* that already held an a.txt.
C29_Witness ==
    /\ DeliveredOnce("a.txt")
    /\ processed[1].chunk.chunk_index = 2
    /\ processed[2].chunk.chunk_index = 0
    /\ "a_1.txt" \in DOMAIN save_directory

\* C30: for every file_id with a transfer of at least one chunk,
\* get_transfer_progress returns the number of distinct indices received
\* over total_chunks, a value from 0.0 to 1.0; for any other file_id of a
\* chunk it returns None.
C30_ProgressInRange ==
    \A chunk \in Chunks :
        IF chunk.file_id \notin DOMAIN transfer_states
        THEN get_transfer_progress(chunk.file_id) = None
        ELSE transfer_states[chunk.file_id].total_chunks > 0
             => LET progress == get_transfer_progress(chunk.file_id)
                IN  /\ progress.num =
                          Cardinality(DOMAIN transfer_states[chunk.file_id].received_chunks)
                    /\ progress.den = transfer_states[chunk.file_id].total_chunks
                    /\ 0 <= progress.num /\ progress.num <= progress.den

\* C31: a completed file is written to a path that named no file before
\* the write, the filename itself when it is free and otherwise the base
\* name with the smallest counter from 1 that is free, and every file that
\* was in save_directory stays as it was.
C31_CollisionAvoidance ==
    [][\A chunk \in Chunks :
          (process_chunk(chunk) /\ completed' # completed)
          => LET filename == transfer_states'[chunk.file_id].filename
                 written == DOMAIN save_directory' \ DOMAIN save_directory
             IN  /\ \A path \in DOMAIN save_directory :
                        /\ path \in DOMAIN save_directory'
                        /\ save_directory'[path] = save_directory[path]
                 /\ written = {completed'[Len(completed')].file_path}
                 /\ \E k \in 0..Cardinality(DOMAIN save_directory) :
                        /\ written = {PathOf(filename, k)}
                        /\ \A j \in 0..(k - 1) :
                               PathOf(filename, j) \in DOMAIN save_directory]_vars

\* b.bin arrived in a directory that held b.bin and b_1.bin and was
\* written as b_2.bin; b_1.bin arrived after it and was written as
\* b_1_1.bin.
C31_Witness ==
    /\ "b_2.bin" \in DOMAIN save_directory
    /\ "b_1_1.bin" \in DOMAIN save_directory
    /\ save_directory["b_2.bin"] = <<6>>
    /\ save_directory["b_1_1.bin"] = <<7>>
    /\ save_directory["b.bin"] = <<0>>
    /\ save_directory["b_1.bin"] = <<1>>

\* C32: an exception a callback raises never leaves the loop that called
\* it.  A process_chunk call that completes a transfer calls every
\* registered completion callback, in registration order, marks the
\* transfer complete and returns True; a handler that delivers a message
\* calls every registered message callback, in registration order, lets no
\* exception out of them and ends with its socket closed.
C32_CallbackIsolation ==
    [][/\ \A chunk \in Chunks :
             (process_chunk(chunk) /\ save_directory' # save_directory)
             => /\ Len(completed') = Len(completed) + Len(completion_callbacks)
                /\ \A k \in 1..Len(completion_callbacks) :
                       completed'[Len(completed) + k].callback = k
                /\ processed'[Len(processed')].result = "True"
                /\ transfer_states'[chunk.file_id].complete
       /\ \A h \in BagToSet(handlers) :
             (Dispatch(h) /\ delivered' # delivered)
             => /\ handlers' = handlers (-) SetToBag({h})
                /\ \E c \in BagToSet(called') :
                       /\ CopiesIn(c, called') = CopiesIn(c, called) + 1
                       /\ c.node = h.node
                       /\ c.closed
                       /\ ~c.propagated
                       /\ Len(c.calls) = Len(message_callbacks[h.node])
                       /\ \A k \in 1..Len(c.calls) : c.calls[k].callback = k]_vars

\* The first of two completion callbacks raised and the second was called
\* with the same file, and the first of two message callbacks raised and
\* the second was called with the same message.
C32_Witness ==
    /\ Len(completed) >= 2
    /\ completed[1].trapped /\ completed[1].callback = 1
    /\ completed[2].callback = 2
    /\ completed[2].file_path = completed[1].file_path
    /\ processed[1].result = "True"
    /\ \E c \in BagToSet(called) :
           /\ Len(c.calls) = 2
           /\ c.calls[1].trapped
           /\ c.calls[2].callback = 2

\* C33: after update_topology(local, N) the routing table has one entry
\* for each distinct id of N other than local and no other entry, whatever
\* it held before; the entry of a neighbor has that neighbor as next_hop,
\* hop_count 1 and as total_latency the measured latency of the link from
\* local to it, or 1.0 when none was measured.
C33_TableIsFunctionOfInputs ==
    [][\A node_id \in TopologyNodes, known \in NeighborLists :
          update_topology(node_id, known)
          => /\ DOMAIN routing_table' = Range(known) \ {node_id}
             /\ \A n \in DOMAIN routing_table' :
                    routing_table'[n] =
                        RouteInfo(n, n, 1,
                                  IF <<node_id, n>> \in DOMAIN link_latencies
                                  THEN link_latencies[<<node_id, n>>]
                                  ELSE 1)]_vars

\* A first recomputed its table for the neighbours B and C and then for B
\* alone, the link to B measured at 5: the table holds B and not C.
C33_Witness ==
    /\ Len(topology) = 2
    /\ topology[1] = [node_id |-> "A", known_nodes |-> <<"B", "C">>]
    /\ topology[2] = [node_id |-> "A", known_nodes |-> <<"B">>]
    /\ <<"A", "B">> \in DOMAIN link_latencies
    /\ DOMAIN routing_table = {"B"}
    /\ routing_table["B"].total_latency = 5

\* The last bytes are a PKCS#7 padding: a length from 1 to the block size,
\* held by as many last bytes.
ValidPadding(padded) ==
    /\ padded # <<>>
    /\ padded[Len(padded)] \in 1..AES_block_size
    /\ \A i \in (Len(padded) - padded[Len(padded)] + 1)..Len(padded) :
           padded[i] = padded[Len(padded)]

\* The text has a base64 fault, an IV or a ciphertext part of a wrong
\* length, no ciphertext, or decrypts to bytes with a wrong padding.
Faulty(text) ==
    \/ "fault" \in DOMAIN text
    \/ text.b64.iv_len # AES_block_size
    \/ text.b64.ciphertext_len = 0
    \/ text.b64.ciphertext_len % AES_block_size # 0
    \/ ~ValidPadding(text.b64.padded_plaintext)

\* C34: decrypt raises and returns no string when its input has a base64
\* fault, is empty or no whole number of blocks, or decrypts to bytes
\* whose last byte is no valid PKCS#7 padding length (0, more than 16, or
\* not held by the padding bytes before it).
C34_DecryptRejectsFaults ==
    (returned # None /\ returned.op = "decrypt" /\ Faulty(returned.arg))
    => returned.result.raised

\* C35: verify_signature returns ok = False for a signed message of
\* sign_message that was changed in its cleartext, its signer id, its
\* public key or its signature.
C35_TamperDetected ==
    (returned # None /\ returned.op = "verify_signature"
        /\ returned.arg.tampered # returned.arg.signed)
    => ~returned.result.ok

\* C36: a handler of an auth-enabled node whose envelope passed the
\* verification leaves the score of the source at min(100, s + 1), s being
\* the score it read: the store of update_trust_score writes that value,
\* and the admission that follows does not change it.
C36_TrustAccumulates ==
    [][\A h \in BagToSet(handlers) :
          /\ (TrustWrite(h) /\ TrustDelta(h) = 1)
             => trust_scores'[h.node][h.env.source_id] =
                    (IF h.tmp + 1 > 100 THEN 100 ELSE h.tmp + 1)
          /\ Admit(h)
             => /\ h.env.source_id \in DOMAIN trust_scores[h.node]
                /\ trust_scores'[h.node][h.env.source_id] =
                       trust_scores[h.node][h.env.source_id]]_vars

\* C37: a send_message whose destination is a neighbour in the table of
\* the sender calls _send_to_node for that neighbour and for no other
\* node, whatever the table holds and in whatever order.
C37_DirectNeighborUnicast ==
    [][\A o \in originated' \ originated :
          (o.dest_id # BROADCAST /\ o.dest_id \in Range(known_nodes[o.source_id]))
          => \A t \in Nodes : AttemptsTo(t) = (IF t = o.dest_id THEN 1 ELSE 0)]_vars

\* C38: process_chunk returns True, writes the file and calls the
\* callbacks only when every index from 0 to total_chunks - 1 has been
\* received, also when chunks arrive whose index is outside that range.
C38_CompleteMeansFull ==
    [][\A chunk \in Chunks :
          (process_chunk(chunk) /\ processed'[Len(processed')].result = "True")
          => LET state == transfer_states'[chunk.file_id]
             IN  \A i \in 0..(state.total_chunks - 1) :
                     i \in DOMAIN state.received_chunks]_vars

\* C39: every call of process_chunk returns, also when a completion
\* callback calls get_transfer_progress, cleanup_completed_transfers or
\* process_chunk of the same manager: the thread always gets back out of
\* the manager.
C39_CallbacksDoNotDeadlock == []<>(stack = <<>>)

\* The paths of a graph, for C40: sequences of distinct nodes from the
\* source along edges, and the sum of the least weights of their edges.
SimplePaths ==
    {p \in UNION {[1..k -> RouterNodes] : k \in 2..Cardinality(RouterNodes)} :
        \A i, j \in 1..Len(p) : i # j => p[i] # p[j]}

EdgesTo(graph, u, v) ==
    {e \in Range(MapGet(graph, u, <<>>)) : e[1] = v}

PathsIn(graph, source, dest) ==
    {p \in SimplePaths :
        /\ p[1] = source /\ p[Len(p)] = dest
        /\ \A i \in 1..(Len(p) - 1) : EdgesTo(graph, p[i], p[i + 1]) # {}}

LeastOf(S) == CHOOSE x \in S : \A y \in S : x <= y

RECURSIVE PathWeight(_, _)
PathWeight(graph, p) ==
    IF Len(p) < 2 THEN 0
    ELSE LeastOf({e[2] : e \in EdgesTo(graph, p[1], p[2])})
         + PathWeight(graph, Tail(p))

\* C40: _compute_routes has an entry for exactly the nodes other than the
\* source that a path from the source reaches; the entry's total_latency is
\* the least weight of such a path, and some path of that weight starts
\* with the entry's next_hop, a neighbour of the source, and has hop_count
\* edges.
C40_ShortestPaths ==
    routes # None =>
        LET source == routes.source
            graph == routes.graph
            table == routes.table
        IN  /\ DOMAIN table =
                   {d \in RouterNodes \ {source} : PathsIn(graph, source, d) # {}}
            /\ \A d \in DOMAIN table :
                   LET paths == PathsIn(graph, source, d)
                       least == LeastOf({PathWeight(graph, p) : p \in paths})
                   IN  /\ table[d].destination = d
                       /\ table[d].total_latency = least
                       /\ EdgesTo(graph, source, table[d].next_hop) # {}
                       /\ \E p \in paths :
                              /\ PathWeight(graph, p) = least
                              /\ p[2] = table[d].next_hop
                              /\ Len(p) - 1 = table[d].hop_count

\* The self-test: from A, B is reached through B, C through B in two hops
\* of latency 2 (as cheap as through D), and D through D itself.
C40_Witness ==
    /\ routes # None
    /\ routes.source = "A"
    /\ routes.graph = test_graph
    /\ routes.table = ("B" :> RouteInfo("B", "B", 1, 1)
                       @@ "C" :> RouteInfo("C", "B", 2, 2)
                       @@ "D" :> RouteInfo("D", "D", 1, 2))
====
